---- MODULE Spec2Model ----
(***************************************************************************)
(* The in-memory reference store (dummystore.DummyStore) of the segment    *)
(* ledger: its four tables, its sink list, its readers-writer lock, and    *)
(* the tasks that call it, one step of a handler at a time.                *)
(***************************************************************************)
EXTENDS Integers, Sequences, FiniteSets, TLC

\* ------------------------------------------------------------------ bounds
\* Calls clients make on the store in one behaviour.
MaxCalls == 3
\* Capacity of the buffered sink channel (the other one is unbuffered).
MaxChanCap == 1
\* Operations staged in one batch.
MaxStaged == 2
MaxLinks == 3
\* Hex digits of a rendered link hash (a stand-in for the 64 of a Bytes32).
HashWidth == 4

\* ------------------------------------------------------------------ inputs
Procs == {"p1", "p2"}
Chans == {"c0", "c1"}
NoHash == <<>>
None == "none"

MapIDList == <<"m1", "m2">>
ProcessList == <<"p", "q">>

\* Position of x in the sequence s (0 when absent).
IndexOf(s, x) ==
    IF \E i \in 1..Len(s) : s[i] = x
    THEN CHOOSE i \in 1..Len(s) : s[i] = x
    ELSE 0

TagList == <<"t1", "t2">>

\* A link: meta.mapId, meta.process, meta.prevLinkHash (NoHash for a root),
\* meta.priority (<<>> when absent, else <<n>>), meta.tags, and the state
\* payload ("bad" stands for a payload canonical JSON cannot marshal, so that
\* Hash() fails).
Link(m, pr, prev, prio, tags, st) ==
    [mapId |-> m, process |-> pr, prevLinkHash |-> prev, priority |-> prio,
     tags |-> tags, state |-> st]

L1 == Link("m1", "p", NoHash, <<>>, <<>>, "s")
L2 == Link("m2", "q", NoHash, <<1>>, <<"t1">>, "s")
LBad == Link("m1", "p", NoHash, <<>>, <<>>, "bad")
LinkInputs == {L1, L2, LBad}

\* Evidences: E1 and E2 share the (backend, provider) pair.
E1 == [backend |-> "b1", provider |-> "v1", proof |-> "x"]
E2 == [backend |-> "b1", provider |-> "v1", proof |-> "y"]
E3 == [backend |-> "b2", provider |-> "v1", proof |-> "x"]
EvidenceInputs == {E1, E2}

\* Keys are byte strings, values opaque.
KeyInputs == {<<10>>}
ValueInputs == {"v"}

\* --------------------------------------------------------- pure functions
\* n as w hex digits, most significant first (types.Bytes32.String, "%x").
RECURSIVE Hex(_, _)
Hex(n, w) ==
    IF w = 0 THEN <<>> ELSE Append(Hex(n \div 16, w - 1), n % 16)

\* Flattening of the two hex digits of every byte of k.
RECURSIVE HexBytes(_)
HexBytes(k) ==
    IF k = <<>> THEN <<>> ELSE Hex(Head(k), 2) \o HexBytes(Tail(k))

\* A rendering that gives every key the same string.
createKeySame(k) == <<>>

\* createKey: fmt.Sprintf("%x", k)
createKey(k) == HexBytes(k)

\* The value of a rendered hash (0 for NoHash).
RECURSIVE UnHex(_)
UnHex(s) ==
    IF s = <<>> THEN 0
    ELSE 16 * UnHex(SubSeq(s, 1, Len(s) - 1)) + s[Len(s)]

\* cs.Link.Hash: whether canonical JSON can marshal the link.
HashFails(l) == l.state = "bad"

\* A code of a sequence of tags, one per sequence.
RECURSIVE TagsCode(_)
TagsCode(tags) ==
    IF tags = <<>> THEN 0
    ELSE IndexOf(TagList, Head(tags)) + 3 * TagsCode(Tail(tags))

\* cs.Link.Hash: a digest of the canonical serialisation of fixed width, one
\* value per content (collision-free on the inputs).
Hash(l) ==
    (1 + (IndexOf(MapIDList, l.mapId) - 1)
       + 2 * (IndexOf(ProcessList, l.process) - 1)
       + 4 * (IF l.priority = <<>> THEN 0 ELSE l.priority[1])
       + 12 * TagsCode(l.tags)
       + 108 * UnHex(l.prevLinkHash)) % (16 ^ HashWidth)

\* linkHash.String()
HashString(l) == Hex(Hash(l), HashWidth)

HashInputs == {HashString(l) : l \in {x \in LinkInputs : ~HashFails(x)}}

\* cs.Evidences.AddEvidence: the pair that must be unique in a set.
SamePair(e, f) == e.backend = f.backend /\ e.provider = f.provider

HasPair(es, e) == \E i \in 1..Len(es) : SamePair(es[i], e)

\* ------------------------------------------------------------------- state
VARIABLES
    eventChans,   \* a.eventChans: the registered sinks, in order
    links,        \* a.links: hash string -> *cs.Link (an object id of heap)
    evidences,    \* a.evidences: hash string -> evidences
    values,       \* a.values: createKey(key) -> value
    maps,         \* a.maps: mapId -> set of hash strings
    mutex,        \* a.mutex: [writer, readers]
    heap,         \* the cs.Link objects callers allocated, by object id
    chanBuf,      \* the buffer of each channel
    recvd,        \* what each sink took from its channel, in order
    pc,           \* where each task is
    cur,          \* the call each task is in (index into calls)
    local,        \* the locals of the handler each task runs
    calls,        \* log of the calls made, in call order, with their results
    hist,         \* the calls that changed the store, in the order they did
    mock,         \* the MockAdapter of the HTTP server: the state of each mock
    files,        \* the files under the path of the generator repository, by path
    batch         \* the batches opened over the store

storeVars == <<links, evidences, values, maps>>
chanVars == <<chanBuf, recvd>>
vars == <<eventChans, links, evidences, values, maps, mutex, heap, chanBuf,
          recvd, pc, cur, local, calls, hist, batch, mock, files>>

Batches == {"b1", "b2"}
NoRead == [req |-> [op |-> "none"], result |-> <<>>, expect |-> <<>>]
NoBatch == [open |-> FALSE, state |-> "none", ops |-> <<>>, next |-> 0,
            wcall |-> 0, last |-> 0, read |-> NoRead]
NoEvent == [kind |-> "none"]
NoLocal == [snap |-> <<>>, idx |-> 0, ev |-> NoEvent, h |-> NoHash]

\* storetesting.MockAdapter: one mock per operation of the adapter, with the
\* number of calls, the arguments of the calls, the last argument and the
\* optional implementation. &storetesting.MockAdapter{} is all zero values.
MockOps == {"AddDidSaveChannel", "SaveSegment", "GetSegment", "DeleteSegment",
            "FindSegments", "GetMapIDs"}
NilFn == "nil"
ZeroMock == [CalledCount |-> 0, CalledWith |-> <<>>, LastCalledWith |-> None,
             Fn |-> NilFn]
NoMock == [op \in MockOps |-> ZeroMock]

\* New(config): empty tables, no sink, lock free.
Init ==
    /\ eventChans = <<>>
    /\ mock = NoMock
    /\ files = <<>>
    /\ links = <<>>
    /\ evidences = <<>>
    /\ values = <<>>
    /\ maps = <<>>
    /\ mutex = [writer |-> None, readers |-> {}]
    /\ heap = <<>>
    /\ chanBuf = [c \in Chans |-> <<>>]
    /\ recvd = [c \in Chans |-> <<>>]
    /\ pc = [p \in Procs |-> "idle"]
    /\ cur = [p \in Procs |-> 0]
    /\ local = [p \in Procs |-> NoLocal]
    /\ calls = <<>>
    /\ hist = <<>>
    /\ batch = [b \in Batches |-> NoBatch]

\* -------------------------------------------------------- Go maps, slices
Has(f, k) == k \in DOMAIN f

Put(f, k, v) == [x \in DOMAIN f \cup {k} |-> IF x = k THEN v ELSE f[x]]

Del(f, k) == [x \in DOMAIN f \ {k} |-> f[x]]

Req(p) == calls[cur[p]].req

\* Capacity of a channel: c0 is unbuffered.
ChanCap(c) == IF c = "c0" THEN 0 ELSE MaxChanCap

\* ---------------------------------------------------------------- a.mutex
\* A lock that never makes a writer wait, and one that lets readers in
\* beside a writer.
CanLockAlways == TRUE
CanRLockAlways == TRUE

\* sync.RWMutex.Lock can return: no writer and no reader holds the lock.
CanLock == mutex.writer = None /\ mutex.readers = {}

\* sync.RWMutex.RLock can return: no writer holds the lock.
CanRLock == mutex.writer = None

WriteOps == {"CreateLink", "AddEvidence", "SetValue", "DeleteValue"}
ReadOps == {"GetSegment", "FindSegments", "GetMapIDs", "GetEvidences", "GetValue"}

\* Where a handler is once it holds the lock.
Body(op) ==
    CASE op = "CreateLink" -> "createLink"
      [] op = "SetValue" -> "setValue"
      [] op = "DeleteValue" -> "deleteValue"
      [] OTHER -> op

\* ------------------------------------------------------------ call, return
\* A task calls an operation of the store.
Invoke(p, r) ==
    /\ pc[p] = "idle"
    /\ Cardinality({i \in 1..Len(calls) : calls[i].via = "client"}) < MaxCalls
    /\ calls' = Append(calls, [proc |-> p, via |-> "client", req |-> r,
                               status |-> "pending", result |-> <<>>,
                               sinks |-> <<>>])
    /\ cur' = [cur EXCEPT ![p] = Len(calls) + 1]
    /\ pc' = [pc EXCEPT ![p] =
                 CASE r.op \in WriteOps -> "Lock"
                   [] r.op \in ReadOps -> "RLock"
                   [] OTHER -> r.op]

\* The handler returns (st, v) to its caller: a client, or the Write of a
\* batch that replays the call.
Return(p, st, v) ==
    /\ calls' = [calls EXCEPT ![cur[p]].status = st, ![cur[p]].result = v]
    /\ LET via == calls[cur[p]].via IN
        /\ pc' = [pc EXCEPT ![p] = IF via = "client" THEN "idle" ELSE "Write"]
        /\ cur' = [cur EXCEPT ![p] = IF via = "client" THEN 0 ELSE batch[via].wcall]
    /\ local' = [local EXCEPT ![p] = NoLocal]

\* a.mutex.Lock() of CreateLink, AddEvidence, SetValue, DeleteValue.
Lock(p) ==
    /\ pc[p] = "Lock"
    /\ CanLock
    /\ mutex' = [mutex EXCEPT !.writer = p]
    /\ pc' = [pc EXCEPT ![p] = Body(Req(p).op)]
    /\ UNCHANGED <<batch, eventChans, files, mock, storeVars, heap, chanVars, cur, local, calls, hist>>

\* a.mutex.RLock() of the read operations.
RLock(p) ==
    /\ pc[p] = "RLock"
    /\ CanRLock
    /\ mutex' = [mutex EXCEPT !.readers = @ \cup {p}]
    /\ pc' = [pc EXCEPT ![p] = Body(Req(p).op)]
    /\ UNCHANGED <<batch, eventChans, files, mock, storeVars, heap, chanVars, cur, local, calls, hist>>

\* A return that leaves the lock held.
UnlockForgotten == mutex' = mutex

\* defer a.mutex.Unlock()
Unlock == mutex' = [mutex EXCEPT !.writer = None]

\* defer a.mutex.RUnlock()
RUnlock(p) == mutex' = [mutex EXCEPT !.readers = @ \ {p}]

\* ------------------------------------------------------------ registration
\* The client registers a sink: the call.
CallAddStoreEventChannel(p, c) ==
    /\ Invoke(p, [op |-> "AddStoreEventChannel", eventChan |-> c])
    /\ UNCHANGED <<batch, eventChans, files, mock, storeVars, mutex, heap, chanVars, local, hist>>

\* append(a.eventChans, eventChan): the slice is read ...
AddStoreEventChannelRead(p) ==
    /\ pc[p] = "AddStoreEventChannel"
    /\ local' = [local EXCEPT ![p].snap = eventChans]
    /\ pc' = [pc EXCEPT ![p] = "AddStoreEventChannelWrite"]
    /\ UNCHANGED <<batch, eventChans, files, mock, storeVars, mutex, heap, chanVars, cur, calls, hist>>

\* ... and the appended slice assigned to a.eventChans, with no lock held.
AddStoreEventChannelWrite(p) ==
    /\ pc[p] = "AddStoreEventChannelWrite"
    /\ eventChans' = Append(local[p].snap, Req(p).eventChan)
    /\ Return(p, "ok", <<>>)
    /\ UNCHANGED <<mock, files, batch, storeVars, mutex, heap, chanVars, hist>>

\* ----------------------------------------------------------------- events
\* store.NewSavedLinks(link)
NewSavedLinks(cid, l) == [kind |-> "SavedLinks", cid |-> cid, links |-> <<l>>]

\* store.NewSavedEvidences() and AddSavedEvidence(linkHash, evidence)
NewSavedEvidences(cid, h, e) ==
    [kind |-> "SavedEvidences", cid |-> cid, linkHash |-> h, evidence |-> e]

\* A loop that starts at the second sink.
RangeEventChansFromSecond == IF eventChans = <<>> THEN <<>> ELSE Tail(eventChans)

\* for _, c := range a.eventChans: the slice the loop ranges over.
RangeEventChans == eventChans

\* A loop that stops before the last sink.
LoopDoneEarly(p) == local[p].idx >= Len(local[p].snap)

\* The loop over the sinks has sent to every one of them.
LoopDone(p) == local[p].idx > Len(local[p].snap)

\* c <- event on an unbuffered channel: the sink takes the event as it is sent.
SendUnbuffered(p) ==
    /\ pc[p] = "send"
    /\ ~LoopDone(p)
    /\ LET c == local[p].snap[local[p].idx] IN
        /\ ChanCap(c) = 0
        /\ recvd' = [recvd EXCEPT ![c] = Append(@, local[p].ev)]
    /\ local' = [local EXCEPT ![p].idx = @ + 1]
    /\ UNCHANGED <<batch, eventChans, files, mock, storeVars, mutex, heap, chanBuf, pc, cur, calls, hist>>

\* c <- event on a buffered channel: blocks while the buffer is full.
SendBuffered(p) ==
    /\ pc[p] = "send"
    /\ ~LoopDone(p)
    /\ LET c == local[p].snap[local[p].idx] IN
        /\ ChanCap(c) > 0
        /\ Len(chanBuf[c]) < ChanCap(c)
        /\ chanBuf' = [chanBuf EXCEPT ![c] = Append(@, local[p].ev)]
    /\ local' = [local EXCEPT ![p].idx = @ + 1]
    /\ UNCHANGED <<batch, eventChans, files, mock, storeVars, mutex, heap, recvd, pc, cur, calls, hist>>

\* The task of a sink takes the next event from its buffered channel.
SinkRecv(c) ==
    /\ chanBuf[c] # <<>>
    /\ recvd' = [recvd EXCEPT ![c] = Append(@, Head(chanBuf[c]))]
    /\ chanBuf' = [chanBuf EXCEPT ![c] = Tail(@)]
    /\ UNCHANGED <<batch, eventChans, files, mock, storeVars, mutex, heap, pc, cur, local, calls, hist>>

\* return linkHash, nil / return nil, with the deferred Unlock.
WriteReturn(p) ==
    /\ pc[p] = "send"
    /\ LoopDone(p)
    /\ Return(p, "ok", local[p].h)
    /\ Unlock
    /\ UNCHANGED <<batch, eventChans, files, mock, storeVars, heap, chanVars, hist>>

\* ------------------------------------------------------------- CreateLink
\* A table holding the new link alone.
insertLinkAlone(ls, h, o) == [x \in {h} |-> o]

\* a.links[linkHashStr] = link
insertLink(ls, h, o) == Put(ls, h, o)

\* An insert that does not create the set of a map seen for the first time.
insertMapNoCreate(ms, mapID, h) ==
    IF Has(ms, mapID) THEN Put(ms, mapID, ms[mapID] \cup {h}) ELSE ms

\* An index holding the map of the new link alone.
insertMapAlone(ms, mapID, h) == [x \in {mapID} |-> {h}]

\* a.maps[mapID][linkHashStr] = struct{}{}, creating the set when absent
insertMap(ms, mapID, h) ==
    Put(ms, mapID, (IF Has(ms, mapID) THEN ms[mapID] ELSE {}) \cup {h})

\* The client builds a link and calls CreateLink with a pointer to it.
CallCreateLink(p, l) ==
    /\ heap' = Append(heap, l)
    /\ Invoke(p, [op |-> "CreateLink", link |-> Len(heap) + 1])
    /\ UNCHANGED <<batch, eventChans, files, mock, storeVars, mutex, chanVars, local, hist>>

\* createLink: link.Hash() fails.
createLinkHashErr(p) ==
    /\ pc[p] = "createLink"
    /\ HashFails(heap[Req(p).link])
    /\ Return(p, "err", "hash")
    /\ Unlock
    /\ UNCHANGED <<batch, eventChans, files, mock, storeVars, heap, chanVars, hist>>

\* createLink: the link is hashed and put into a.links.
createLinkStore(p) ==
    /\ pc[p] = "createLink"
    /\ ~HashFails(heap[Req(p).link])
    /\ LET h == HashString(heap[Req(p).link]) IN
        /\ links' = insertLink(links, h, Req(p).link)
        /\ local' = [local EXCEPT ![p].h = h]
    /\ hist' = Append(hist, cur[p])
    /\ pc' = [pc EXCEPT ![p] = "createLinkMap"]
    /\ UNCHANGED <<batch, eventChans, files, mock, evidences, values, maps, mutex, heap, chanVars, cur, calls>>

\* createLink: the hash is put into the set of the link's map, the event is
\* built and the loop over the sinks starts.
createLinkMap(p) ==
    /\ pc[p] = "createLinkMap"
    /\ LET l == heap[Req(p).link] IN
        /\ maps' = insertMap(maps, l.mapId, local[p].h)
        /\ local' = [local EXCEPT ![p].ev = NewSavedLinks(cur[p], l),
                                  ![p].snap = RangeEventChans,
                                  ![p].idx = 1]
    /\ calls' = [calls EXCEPT ![cur[p]].sinks = eventChans]
    /\ pc' = [pc EXCEPT ![p] = "send"]
    /\ UNCHANGED <<batch, eventChans, files, mock, links, evidences, values, mutex, heap, chanVars, cur, hist>>

\* ------------------------------------------------------------ AddEvidence
\* cs.Evidences.AddEvidence: appends, unless the set holds the pair already.
EvidencesAddEvidence(es, e) ==
    IF HasPair(es, e)
    THEN [err |-> TRUE, es |-> es]
    ELSE [err |-> FALSE, es |-> Append(es, e)]

\* addEvidence storing the list with e appended before it looks at the error.
addEvidenceStoreFirst(evs, h, e) ==
    LET currentEvidences == IF Has(evs, h) THEN evs[h] ELSE <<>>
    IN  [err |-> EvidencesAddEvidence(currentEvidences, e).err,
         evidences |-> Put(evs, h, Append(currentEvidences, e))]

\* addEvidence starting from an empty list whatever the hash holds.
addEvidenceFresh(evs, h, e) ==
    [err |-> FALSE, evidences |-> Put(evs, h, <<e>>)]

\* An addEvidence that refuses the hash of no stored link.
addEvidenceOfLink(evs, h, e) ==
    LET currentEvidences == IF Has(evs, h) THEN evs[h] ELSE <<>>
        r == EvidencesAddEvidence(currentEvidences, e)
    IN  IF r.err \/ ~Has(links, h)
        THEN [err |-> TRUE, evidences |-> evs]
        ELSE [err |-> FALSE, evidences |-> Put(evs, h, r.es)]

\* addEvidence: the evidences of the hash (empty when absent) with e added,
\* stored back unless adding failed.
addEvidence(evs, h, e) ==
    LET currentEvidences == IF Has(evs, h) THEN evs[h] ELSE <<>>
        r == EvidencesAddEvidence(currentEvidences, e)
    IN  IF r.err
        THEN [err |-> TRUE, evidences |-> evs]
        ELSE [err |-> FALSE, evidences |-> Put(evs, h, r.es)]

CallAddEvidence(p, h, e) ==
    /\ Invoke(p, [op |-> "AddEvidence", linkHash |-> h, evidence |-> e])
    /\ UNCHANGED <<batch, eventChans, files, mock, storeVars, mutex, heap, chanVars, local, hist>>

\* AddEvidence: addEvidence fails and the error is returned.
AddEvidenceErr(p) ==
    /\ pc[p] = "AddEvidence"
    /\ LET r == addEvidence(evidences, Req(p).linkHash, Req(p).evidence) IN
        /\ r.err
        /\ evidences' = r.evidences
    /\ Return(p, "err", "evidence")
    /\ Unlock
    /\ UNCHANGED <<batch, eventChans, files, mock, links, values, maps, heap, chanVars, hist>>

\* AddEvidence: the evidence is stored, the event is built and the loop over
\* the sinks starts.
AddEvidenceStore(p) ==
    /\ pc[p] = "AddEvidence"
    /\ LET r == addEvidence(evidences, Req(p).linkHash, Req(p).evidence) IN
        /\ ~r.err
        /\ evidences' = r.evidences
    /\ local' = [local EXCEPT
                    ![p].ev = NewSavedEvidences(cur[p], Req(p).linkHash, Req(p).evidence),
                    ![p].snap = RangeEventChans,
                    ![p].idx = 1]
    /\ calls' = [calls EXCEPT ![cur[p]].sinks = eventChans]
    /\ hist' = Append(hist, cur[p])
    /\ pc' = [pc EXCEPT ![p] = "send"]
    /\ UNCHANGED <<batch, eventChans, files, mock, links, values, maps, mutex, heap, chanVars, cur>>

\* ------------------------------------------------------------------ reads
\* The four tables of the store as one value.
Tables == [links |-> links, evidences |-> evidences, values |-> values, maps |-> maps]

\* A getSegment that builds a segment around an absent link.
getSegmentInBuilt(t, h) ==
    [nil |-> FALSE, link |-> IF Has(t.links, h) THEN heap[t.links[h]] ELSE LBad,
     ref |-> IF Has(t.links, h) THEN t.links[h] ELSE 0,
     meta |-> [linkHash |-> h,
               evidences |-> IF Has(t.evidences, h) THEN t.evidences[h] ELSE <<>>]]

\* getSegment on the tables t.
getSegmentIn(t, h) ==
    IF ~Has(t.links, h)
    THEN [nil |-> TRUE]
    ELSE [nil |-> FALSE,
          link |-> heap[t.links[h]],
          ref |-> t.links[h],
          meta |-> [linkHash |-> h,
                    evidences |-> IF Has(t.evidences, h) THEN t.evidences[h] ELSE <<>>]]

\* getSegment: nil when the hash is absent, else a segment holding a copy of
\* the link struct (ref: the object whose Meta and State maps the copy
\* shares), the hash it was asked for and the evidences of the hash.
getSegment(h) == getSegmentIn(Tables, h)

CallGetSegment(p, h) ==
    /\ Invoke(p, [op |-> "GetSegment", linkHash |-> h])
    /\ UNCHANGED <<batch, eventChans, files, mock, storeVars, mutex, heap, chanVars, local, hist>>

GetSegment(p) ==
    /\ pc[p] = "GetSegment"
    /\ Return(p, "ok", getSegment(Req(p).linkHash))
    /\ RUnlock(p)
    /\ UNCHANGED <<batch, eventChans, files, mock, storeVars, heap, chanVars, hist>>

CallGetEvidences(p, h) ==
    /\ Invoke(p, [op |-> "GetEvidences", linkHash |-> h])
    /\ UNCHANGED <<batch, eventChans, files, mock, storeVars, mutex, heap, chanVars, local, hist>>

\* GetEvidences: the evidences of the hash, nil when absent.
GetEvidences(p) ==
    /\ pc[p] = "GetEvidences"
    /\ Return(p, "ok",
              IF Has(evidences, Req(p).linkHash)
              THEN [nil |-> FALSE, evidences |-> evidences[Req(p).linkHash]]
              ELSE [nil |-> TRUE])
    /\ RUnlock(p)
    /\ UNCHANGED <<batch, eventChans, files, mock, storeVars, heap, chanVars, hist>>

\* ------------------------------------------------------------- key-value
CallGetValue(p, k) ==
    /\ Invoke(p, [op |-> "GetValue", key |-> k])
    /\ UNCHANGED <<batch, eventChans, files, mock, storeVars, mutex, heap, chanVars, local, hist>>

\* GetValue: a.values[createKey(key)], nil when absent.
GetValue(p) ==
    /\ pc[p] = "GetValue"
    /\ Return(p, "ok",
              IF Has(values, createKey(Req(p).key))
              THEN [nil |-> FALSE, value |-> values[createKey(Req(p).key)]]
              ELSE [nil |-> TRUE])
    /\ RUnlock(p)
    /\ UNCHANGED <<batch, eventChans, files, mock, storeVars, heap, chanVars, hist>>

CallSetValue(p, k, v) ==
    /\ Invoke(p, [op |-> "SetValue", key |-> k, value |-> v])
    /\ UNCHANGED <<batch, eventChans, files, mock, storeVars, mutex, heap, chanVars, local, hist>>

\* setValue: a.values[createKey(key)] = value
setValue(p) ==
    /\ pc[p] = "setValue"
    /\ values' = Put(values, createKey(Req(p).key), Req(p).value)
    /\ hist' = Append(hist, cur[p])
    /\ Return(p, "ok", <<>>)
    /\ Unlock
    /\ UNCHANGED <<batch, eventChans, files, mock, links, evidences, maps, heap, chanVars>>

CallDeleteValue(p, k) ==
    /\ Invoke(p, [op |-> "DeleteValue", key |-> k])
    /\ UNCHANGED <<batch, eventChans, files, mock, storeVars, mutex, heap, chanVars, local, hist>>

\* deleteValue: the key is absent, nil is returned.
deleteValueAbsent(p) ==
    /\ pc[p] = "deleteValue"
    /\ ~Has(values, createKey(Req(p).key))
    /\ Return(p, "ok", [nil |-> TRUE])
    /\ Unlock
    /\ UNCHANGED <<batch, eventChans, files, mock, storeVars, heap, chanVars, hist>>

\* deleteValue: the key is deleted and its value returned.
deleteValue(p) ==
    /\ pc[p] = "deleteValue"
    /\ Has(values, createKey(Req(p).key))
    /\ values' = Del(values, createKey(Req(p).key))
    /\ hist' = Append(hist, cur[p])
    /\ Return(p, "ok", [nil |-> FALSE, value |-> values[createKey(Req(p).key)]])
    /\ Unlock
    /\ UNCHANGED <<batch, eventChans, files, mock, links, evidences, maps, heap, chanVars>>

\* ---------------------------------------------------------------- filters
Pagination(offset, limit) == [offset |-> offset, limit |-> limit]

\* store.SegmentFilter; prevLinkHash is a pointer: set says it is not nil.
SegmentFilter(mapIDs, process, prev, tags, linkHashes, pagination) ==
    [mapIDs |-> mapIDs, process |-> process, prevLinkHash |-> prev,
     tags |-> tags, linkHashes |-> linkHashes, pagination |-> pagination]

NilPrev == [set |-> FALSE, val |-> NoHash]
Prev(h) == [set |-> TRUE, val |-> h]

\* store.MapFilter
MapFilter(process, pagination) == [process |-> process, pagination |-> pagination]

Range(q) == {q[i] : i \in 1..Len(q)}

\* store.SegmentFilter.MatchLink: every set field of the filter matches.
MatchLink(filter, l) ==
    /\ filter.prevLinkHash.set => l.prevLinkHash = filter.prevLinkHash.val
    /\ filter.process # "" => l.process = filter.process
    /\ Len(filter.mapIDs) > 0 => l.mapId \in Range(filter.mapIDs)
    /\ Range(filter.tags) \subseteq Range(l.tags)

\* store.SegmentFilter.Match
Match(filter, seg) ==
    /\ Len(filter.linkHashes) > 0 => seg.meta.linkHash \in Range(filter.linkHashes)
    /\ MatchLink(filter, seg.link)

\* store.MapFilter.MatchLink
MapMatchLink(filter, l) == filter.process = "" \/ l.process = filter.process

\* A Less that compares the priorities alone.
LessByPriority(s1, s2) ==
    LET p1 == s1.link.priority
        p2 == s2.link.priority
    IN  \/ p1 # <<>> /\ p2 = <<>>
        \/ p1 # <<>> /\ p2 # <<>> /\ p1[1] > p2[1]

\* cs.SegmentSlice.Less: priority descending (absent last), then hash ascending.
Less(s1, s2) ==
    LET p1 == s1.link.priority
        p2 == s2.link.priority
    IN  \/ p1 # <<>> /\ p2 = <<>>
        \/ p1 # <<>> /\ p2 # <<>> /\ p1[1] > p2[1]
        \/ /\ p1 = p2
           /\ UnHex(s1.meta.linkHash) < UnHex(s2.meta.linkHash)

\* sort.Sort(segments)
RECURSIVE SortSegments(_)
SortSegments(S) ==
    IF S = {} THEN <<>>
    ELSE LET first == CHOOSE x \in S : \A y \in S \ {x} : ~Less(y, x)
         IN  <<first>> \o SortSegments(S \ {first})

\* sort.Strings(mapIDs); MapIDList lists the map ids in lexicographic order.
RECURSIVE SortStrings(_)
SortStrings(S) ==
    IF S = {} THEN <<>>
    ELSE LET first == CHOOSE x \in S :
                 \A y \in S : IndexOf(MapIDList, x) <= IndexOf(MapIDList, y)
         IN  <<first>> \o SortStrings(S \ {first})

\* sort.Sort(segments) on the list as built: every segment is put before the
\* first one it is Less than, so segments that compare equal stay in the
\* order in which the list had them.
InsertSegmentLast(seg, q) == q \o <<seg>>

InsertSegment(seg, q) ==
    LET before == {i \in 1..Len(q) : Less(seg, q[i])}
        at == IF before = {} THEN Len(q) + 1
              ELSE CHOOSE i \in before : \A j \in before : i <= j
    IN  SubSeq(q, 1, at - 1) \o <<seg>> \o SubSeq(q, at, Len(q))

RECURSIVE SortSegmentsSeq(_)
SortSegmentsSeq(q) ==
    IF q = <<>> THEN <<>>
    ELSE InsertSegment(q[Len(q)], SortSegmentsSeq(SubSeq(q, 1, Len(q) - 1)))

\* sort.Strings(mapIDs) on the list as built.
InsertStringLast(m, q) == q \o <<m>>

InsertString(m, q) ==
    LET before == {i \in 1..Len(q) : IndexOf(MapIDList, m) < IndexOf(MapIDList, q[i])}
        at == IF before = {} THEN Len(q) + 1
              ELSE CHOOSE i \in before : \A j \in before : i <= j
    IN  SubSeq(q, 1, at - 1) \o <<m>> \o SubSeq(q, at, Len(q))

RECURSIVE SortStringsSeq(_)
SortStringsSeq(q) ==
    IF q = <<>> THEN <<>>
    ELSE InsertString(q[Len(q)], SortStringsSeq(SubSeq(q, 1, Len(q) - 1)))

\* The orders in which a range over a Go map with the keys S can visit them.
RECURSIVE Orders(_)
Orders(S) ==
    IF S = {} THEN {<<>>}
    ELSE UNION {{<<x>> \o q : q \in Orders(S \ {x})} : x \in S}

\* One of these orders.
AnyOrder(S) == CHOOSE q \in Orders(S) : TRUE

RECURSIVE Flatten(_)
Flatten(qs) == IF qs = <<>> THEN <<>> ELSE Head(qs) \o Flatten(Tail(qs))

Min(a, b) == IF a < b THEN a ELSE b

\* store.Pagination.PaginateSegments and PaginateStrings: q[offset : offset+limit],
\* clamped to the bounds of q.
Paginate(pagination, q) ==
    SubSeq(q, pagination.offset + 1, Min(pagination.offset + pagination.limit, Len(q)))

\* FindSegments: the hashes the store looks at.
candidateHashesListed(t, filter) ==
    UNION {t.maps[m] : m \in Range(filter.mapIDs) \cap DOMAIN t.maps}

candidateHashesIn(t, filter) ==
    IF Len(filter.mapIDs) = 0 \/ filter.prevLinkHash.set
    THEN DOMAIN t.links
    ELSE UNION {t.maps[m] : m \in Range(filter.mapIDs) \cap DOMAIN t.maps}

candidateHashes(filter) == candidateHashesIn(Tables, filter)

\* findHashesSegments: the segments of the hashes the filter matches, appended
\* in the order the range over linkHashes visits them ...
matchingSegments(t, order, filter) ==
    SelectSeq([i \in 1..Len(order) |-> getSegmentIn(t, order[i])],
              LAMBDA seg : ~seg.nil /\ Match(filter, seg))

\* ... then sorted and paginated.
findHashesSegmentsPageFirst(t, order, filter) ==
    SortSegmentsSeq(Paginate(filter.pagination, matchingSegments(t, order, filter)))

findHashesSegmentsIn(t, order, filter) ==
    Paginate(filter.pagination, SortSegmentsSeq(matchingSegments(t, order, filter)))

findHashesSegments(order, filter) == findHashesSegmentsIn(Tables, order, filter)

\* A loop over the links of a map without the break: the map id is appended
\* for every link the filter matches.
appendMapIDNoBreak(t, m, filter) ==
    Flatten([i \in 1..Len(AnyOrder(t.maps[m])) |->
                LET h == AnyOrder(t.maps[m])[i] IN
                IF Has(t.links, h) /\ MapMatchLink(filter, heap[t.links[h]])
                THEN <<m>> ELSE <<>>])

\* GetMapIDs, the loop over the links of map m: the map id is appended once
\* when a link of the map exists and matches the filter.
appendMapID(t, m, filter) ==
    IF \E h \in t.maps[m] : Has(t.links, h) /\ MapMatchLink(filter, heap[t.links[h]])
    THEN <<m>> ELSE <<>>

\* GetMapIDs: the ids appended in the order the range over a.maps visits the
\* maps, sorted and paginated.
getMapIDsIn(t, order, filter) ==
    Paginate(filter.pagination,
             SortStringsSeq(Flatten([i \in 1..Len(order) |->
                                        appendMapID(t, order[i], filter)])))

getMapIDs(order, filter) == getMapIDsIn(Tables, order, filter)

SegmentFilterInputs ==
    {SegmentFilter(<<>>, "", NilPrev, <<>>, <<>>, Pagination(0, 2)),
     SegmentFilter(<<"m1">>, "", NilPrev, <<>>, <<>>, Pagination(0, 2))}

MapFilterInputs == {MapFilter("", Pagination(0, 2))}

CallFindSegments(p, f) ==
    /\ Invoke(p, [op |-> "FindSegments", filter |-> f])
    /\ UNCHANGED <<batch, eventChans, files, mock, storeVars, mutex, heap, chanVars, local, hist>>

FindSegments(p) ==
    /\ pc[p] = "FindSegments"
    /\ \E order \in Orders(candidateHashes(Req(p).filter)) :
          Return(p, "ok", findHashesSegments(order, Req(p).filter))
    /\ RUnlock(p)
    /\ UNCHANGED <<batch, eventChans, files, mock, storeVars, heap, chanVars, hist>>

CallGetMapIDs(p, f) ==
    /\ Invoke(p, [op |-> "GetMapIDs", filter |-> f])
    /\ UNCHANGED <<batch, eventChans, files, mock, storeVars, mutex, heap, chanVars, local, hist>>

GetMapIDs(p) ==
    /\ pc[p] = "GetMapIDs"
    /\ \E order \in Orders(DOMAIN maps) :
          Return(p, "ok", getMapIDs(order, Req(p).filter))
    /\ RUnlock(p)
    /\ UNCHANGED <<batch, eventChans, files, mock, storeVars, heap, chanVars, hist>>

\* ------------------------------------------------------------ next, spec
EvidenceHashInputs == {HashString(L1)}

\* Writers, sinks and a reader: tasks register sinks, create links, add
\* evidences and get segments, and the sinks drain their channels.
Next ==
    \/ \E p \in Procs :
        \/ \E c \in Chans : CallAddStoreEventChannel(p, c)
        \/ AddStoreEventChannelRead(p)
        \/ AddStoreEventChannelWrite(p)
        \/ \E l \in LinkInputs : CallCreateLink(p, l)
        \/ \E h \in EvidenceHashInputs, e \in EvidenceInputs : CallAddEvidence(p, h, e)
        \/ \E h \in EvidenceHashInputs : CallGetSegment(p, h)
        \/ Lock(p)
        \/ RLock(p)
        \/ createLinkHashErr(p)
        \/ createLinkStore(p)
        \/ createLinkMap(p)
        \/ AddEvidenceErr(p)
        \/ AddEvidenceStore(p)
        \/ SendUnbuffered(p)
        \/ SendBuffered(p)
        \/ WriteReturn(p)
        \/ GetSegment(p)
    \/ \E c \in Chans : SinkRecv(c)

Spec == Init /\ [][Next]_vars

\* Every locking operation of the store, with no sink registered.
NextRW ==
    \E p \in Procs :
        \/ \E l \in {L1, L2} : CallCreateLink(p, l)
        \/ \E h \in EvidenceHashInputs, e \in {E1} : CallAddEvidence(p, h, e)
        \/ \E h \in EvidenceHashInputs : CallGetSegment(p, h)
        \/ \E h \in EvidenceHashInputs : CallGetEvidences(p, h)
        \/ \E f \in SegmentFilterInputs : CallFindSegments(p, f)
        \/ \E f \in MapFilterInputs : CallGetMapIDs(p, f)
        \/ \E k \in KeyInputs : CallGetValue(p, k)
        \/ \E k \in KeyInputs, v \in ValueInputs : CallSetValue(p, k, v)
        \/ \E k \in KeyInputs : CallDeleteValue(p, k)
        \/ Lock(p)
        \/ RLock(p)
        \/ createLinkStore(p)
        \/ createLinkMap(p)
        \/ AddEvidenceErr(p)
        \/ AddEvidenceStore(p)
        \/ WriteReturn(p)
        \/ GetSegment(p)
        \/ GetEvidences(p)
        \/ FindSegments(p)
        \/ GetMapIDs(p)
        \/ GetValue(p)
        \/ setValue(p)
        \/ deleteValueAbsent(p)
        \/ deleteValue(p)

SpecRW == Init /\ [][NextRW]_vars

\* ---------------------------------------------------------------- callers
\* The link objects the store holds a pointer to.
StoredObjects == {links[h] : h \in DOMAIN links}

\* A caller that kept the pointer it passed to CreateLink writes the Meta map
\* of that link; a.links holds the same pointer.
MutateLink(p, o, l) ==
    /\ pc[p] = "idle"
    /\ o \in StoredObjects
    /\ heap[o] # l
    /\ heap' = [heap EXCEPT ![o] = l]
    /\ UNCHANGED <<batch, eventChans, files, mock, storeVars, mutex, chanVars, pc, cur, local, calls, hist>>

\* A caller writes the Meta map of the link of a segment it got from
\* GetSegment: the segment's Link is a copy of the struct (Link: *link) that
\* shares its maps with the stored link.
MutateSegmentLink(p, i, l) ==
    /\ pc[p] = "idle"
    /\ i \in 1..Len(calls)
    /\ calls[i].proc = p
    /\ calls[i].req.op = "GetSegment"
    /\ calls[i].status = "ok"
    /\ ~calls[i].result.nil
    /\ heap[calls[i].result.ref] # l
    /\ heap' = [heap EXCEPT ![calls[i].result.ref] = l]
    /\ UNCHANGED <<batch, eventChans, files, mock, storeVars, mutex, chanVars, pc, cur, local, calls, hist>>

\* The same for a segment of a FindSegments result.
MutateFoundLink(p, i, l) ==
    /\ pc[p] = "idle"
    /\ i \in 1..Len(calls)
    /\ calls[i].proc = p
    /\ calls[i].req.op = "FindSegments"
    /\ calls[i].status = "ok"
    /\ \E k \in 1..Len(calls[i].result) :
        /\ heap[calls[i].result[k].ref] # l
        /\ heap' = [heap EXCEPT ![calls[i].result[k].ref] = l]
    /\ UNCHANGED <<batch, eventChans, files, mock, storeVars, mutex, chanVars, pc, cur, local, calls, hist>>

\* One task that creates links, reads them back and writes to the link
\* objects it holds.
NextAlias ==
    \E p \in {"p1"} :
        \/ \E l \in {L1, L2} : CallCreateLink(p, l)
        \/ \E h \in HashInputs : CallGetSegment(p, h)
        \/ \E f \in SegmentFilterInputs : CallFindSegments(p, f)
        \/ Lock(p)
        \/ RLock(p)
        \/ createLinkStore(p)
        \/ createLinkMap(p)
        \/ WriteReturn(p)
        \/ GetSegment(p)
        \/ FindSegments(p)
        \/ \E o \in 1..Len(heap), l \in {L1, L2} : MutateLink(p, o, l)
        \/ \E i \in 1..Len(calls), l \in {L1, L2} : MutateSegmentLink(p, i, l)
        \/ \E i \in 1..Len(calls), l \in {L1, L2} : MutateFoundLink(p, i, l)

SpecAlias == Init /\ [][NextAlias]_vars

\* The evidences stored for hash h (empty when there are none).
EvidencesOf(h) == IF Has(evidences, h) THEN evidences[h] ELSE <<>>

\* ---------------------------------------------------------------- batches
\* NewBatch: bufferedbatch.NewBatch(a), a batch over the store with nothing
\* staged.
NewBatch(p, b) ==
    /\ pc[p] = "idle"
    /\ ~batch[b].open
    /\ \A x \in Batches : (x # b /\ ~batch[x].open) => IndexOf(<<"b1", "b2">>, b) < IndexOf(<<"b1", "b2">>, x)
    /\ batch' = [batch EXCEPT ![b] = [NoBatch EXCEPT !.open = TRUE, !.state = "open", !.next = 1]]
    /\ UNCHANGED <<eventChans, files, mock, storeVars, mutex, heap, chanVars, pc, cur, local, calls, hist>>

\* A batch takes staged operations: it is open and Write() was not called.
Staging(b) ==
    /\ batch[b].state = "open"
    /\ Len(batch[b].ops) < MaxStaged

\* A staging buffer shared by the open batches.
StageShared(b, op) ==
    batch' = [x \in Batches |->
                IF batch[x].state = "open"
                THEN [batch[x] EXCEPT !.ops = Append(@, op)]
                ELSE batch[x]]

\* The batch keeps op for Write() (by: the batch the operation was issued on).
Stage(b, op) == batch' = [batch EXCEPT ![b].ops = Append(@, op)]

\* Batch.CreateLink: the link is staged.
BatchCreateLink(p, b, l) ==
    /\ pc[p] = "idle"
    /\ Staging(b)
    /\ heap' = Append(heap, l)
    /\ Stage(b, [op |-> "CreateLink", link |-> Len(heap) + 1, by |-> b])
    /\ UNCHANGED <<eventChans, files, mock, storeVars, mutex, chanVars, pc, cur, local, calls, hist>>

\* The evidences a batch sees for a hash: those of the base, then the staged.
RECURSIVE StagedEvidences(_, _)
StagedEvidences(ops, h) ==
    IF ops = <<>> THEN <<>>
    ELSE (IF Head(ops).op = "AddEvidence" /\ Head(ops).linkHash = h
          THEN <<Head(ops).evidence>> ELSE <<>>) \o StagedEvidences(Tail(ops), h)

BatchEvidences(b, h) == EvidencesOf(h) \o StagedEvidences(batch[b].ops, h)

\* Batch.AddEvidence: the evidence is staged, unless its pair is there already.
BatchAddEvidence(p, b, h, e) ==
    /\ pc[p] = "idle"
    /\ Staging(b)
    /\ CanRLock
    /\ ~HasPair(BatchEvidences(b, h), e)
    /\ Stage(b, [op |-> "AddEvidence", linkHash |-> h, evidence |-> e, by |-> b])
    /\ UNCHANGED <<eventChans, files, mock, storeVars, mutex, heap, chanVars, pc, cur, local, calls, hist>>

\* Batch.SetValue: staged.
BatchSetValue(p, b, k, v) ==
    /\ pc[p] = "idle"
    /\ Staging(b)
    /\ Stage(b, [op |-> "SetValue", key |-> k, value |-> v, by |-> b])
    /\ UNCHANGED <<eventChans, files, mock, storeVars, mutex, heap, chanVars, pc, cur, local, calls, hist>>

\* Batch.DeleteValue: staged.
BatchDeleteValue(p, b, k) ==
    /\ pc[p] = "idle"
    /\ Staging(b)
    /\ Stage(b, [op |-> "DeleteValue", key |-> k, by |-> b])
    /\ UNCHANGED <<eventChans, files, mock, storeVars, mutex, heap, chanVars, pc, cur, local, calls, hist>>

\* Batch.Write is called.
CallWrite(p, b) ==
    /\ batch[b].state = "open"
    /\ Invoke(p, [op |-> "Write", batch |-> b])
    /\ batch' = [batch EXCEPT ![b].state = "writing", ![b].wcall = Len(calls) + 1]
    /\ UNCHANGED <<eventChans, files, mock, storeVars, mutex, heap, chanVars, local, hist>>

\* A replay that does not wait for Write().
ReplaysUnasked(b) == batch[b].open

\* The batch replays its staged operations: Write() is running.
Replays(b) == batch[b].state = "writing"

\* The batch of the Write task p runs (the call p is in is the Write itself).
WritingBatch(p) == calls[cur[p]].req.batch

\* A replay that goes on after an operation failed.
LastReplayAny(b) == TRUE

\* The operation replayed last, if any, returned without error.
LastReplayOk(b) ==
    IF batch[b].last = 0 THEN TRUE ELSE calls[batch[b].last].status = "ok"

\* Write: the next staged operation is replayed as a call on the base.
WriteReplay(p, b) ==
    /\ Replays(b)
    /\ IF batch[b].state = "writing"
       THEN pc[p] = "Write" /\ WritingBatch(p) = b
       ELSE pc[p] = "idle"
    /\ batch[b].next <= Len(batch[b].ops)
    /\ LastReplayOk(b)
    /\ calls' = Append(calls, [proc |-> p, via |-> b,
                               req |-> batch[b].ops[batch[b].next],
                               status |-> "pending", result |-> <<>>,
                               sinks |-> <<>>])
    /\ cur' = [cur EXCEPT ![p] = Len(calls) + 1]
    /\ pc' = [pc EXCEPT ![p] = "Lock"]
    /\ batch' = [batch EXCEPT ![b].next = @ + 1, ![b].last = Len(calls) + 1]
    /\ UNCHANGED <<eventChans, files, mock, storeVars, mutex, heap, chanVars, local, hist>>

\* Write: a replayed operation failed; its error is returned and the replay
\* stops.
WriteFail(p) ==
    /\ pc[p] = "Write"
    /\ LET b == WritingBatch(p) IN
        /\ batch[b].last # 0
        /\ calls[batch[b].last].status = "err"
        /\ batch' = [batch EXCEPT ![b].state = "failed"]
    /\ Return(p, "err", "replay")
    /\ UNCHANGED <<eventChans, files, mock, storeVars, mutex, heap, chanVars, hist>>

\* Write: every staged operation was replayed.
WriteDone(p) ==
    /\ pc[p] = "Write"
    /\ LET b == WritingBatch(p) IN
        /\ LastReplayOk(b)
        /\ batch[b].next > Len(batch[b].ops)
        /\ batch' = [batch EXCEPT ![b].state = "written"]
    /\ Return(p, "ok", <<>>)
    /\ UNCHANGED <<eventChans, files, mock, storeVars, mutex, heap, chanVars, hist>>

\* One task with a sink that stages operations in a batch, writes it, and
\* works on the base directly.
NextBatch ==
    \/ \E p \in {"p1"} :
        \/ \E b \in {"b1"} : NewBatch(p, b)
        \/ \E b \in {"b1"}, l \in {L1} : BatchCreateLink(p, b, l)
        \/ \E b \in {"b1"}, h \in EvidenceHashInputs, e \in {E1} : BatchAddEvidence(p, b, h, e)
        \/ \E b \in {"b1"}, k \in KeyInputs, v \in ValueInputs : BatchSetValue(p, b, k, v)
        \/ \E b \in {"b1"}, k \in KeyInputs : BatchDeleteValue(p, b, k)
        \/ \E b \in {"b1"} : CallWrite(p, b)
        \/ \E b \in {"b1"} : WriteReplay(p, b)
        \/ WriteFail(p)
        \/ WriteDone(p)
        \/ \E c \in {"c1"} : CallAddStoreEventChannel(p, c)
        \/ AddStoreEventChannelRead(p)
        \/ AddStoreEventChannelWrite(p)
        \/ \E h \in EvidenceHashInputs, e \in {E2} : CallAddEvidence(p, h, e)
        \/ \E h \in EvidenceHashInputs : CallGetSegment(p, h)
        \/ \E k \in KeyInputs : CallGetValue(p, k)
        \/ \E k \in KeyInputs, v \in {"w"} : CallSetValue(p, k, v)
        \/ Lock(p)
        \/ RLock(p)
        \/ createLinkStore(p)
        \/ createLinkMap(p)
        \/ AddEvidenceErr(p)
        \/ AddEvidenceStore(p)
        \/ SendBuffered(p)
        \/ WriteReturn(p)
        \/ GetSegment(p)
        \/ GetValue(p)
        \/ setValue(p)
        \/ deleteValueAbsent(p)
        \/ deleteValue(p)
    \/ \E c \in {"c1"} : SinkRecv(c)

SpecBatch == Init /\ [][NextBatch]_vars

\* ------------------------------------------------------- batches: queries
\* Positions of the staged CreateLink operations of a link with hash h.
StagedAt(ops, h) ==
    {i \in 1..Len(ops) : ops[i].op = "CreateLink" /\ HashString(heap[ops[i].link]) = h}

\* The hashes of the links staged in ops.
StagedHashes(ops) ==
    {HashString(heap[ops[i].link]) : i \in {k \in 1..Len(ops) : ops[k].op = "CreateLink"}}

Max(S) == CHOOSE x \in S : \A y \in S : y <= x

\* The segment of a link staged in batch b, with the evidences the batch
\* sees for its hash.
Segmentify(b, o) ==
    [nil |-> FALSE, link |-> heap[o], ref |-> o,
     meta |-> [linkHash |-> HashString(heap[o]),
               evidences |-> BatchEvidences(b, HashString(heap[o]))]]

\* The staged segment of hash h (the one staged last).
StagedSegment(b, h) == Segmentify(b, batch[b].ops[Max(StagedAt(batch[b].ops, h))].link)

\* Batch.GetSegment: the staged segment if h was created in the batch, else
\* the segment of the base.
batchGetSegment(b, h) ==
    IF StagedAt(batch[b].ops, h) # {}
    THEN StagedSegment(b, h)
    ELSE getSegment(h)

\* Batch.FindSegments: the base queried with the same filter, the staged
\* segments the filter matches laid over it, one segment per hash (the
\* batch's), sorted and paginated.
batchFindSegments(b, filter) ==
    LET ops == batch[b].ops
        base == findHashesSegments(AnyOrder(candidateHashes(filter)), filter)
        staged == {seg \in {StagedSegment(b, h) : h \in StagedHashes(ops)} :
                      Match(filter, seg)}
        kept == {seg \in Range(base) :
                    seg.meta.linkHash \notin {x.meta.linkHash : x \in staged}}
    IN  Paginate(filter.pagination, SortSegments(staged \cup kept))

\* Batch.GetMapIDs: the map ids of the base and those of the staged links the
\* filter matches, sorted and paginated.
batchGetMapIDs(b, filter) ==
    LET ops == batch[b].ops
        staged == {heap[ops[i].link].mapId :
                      i \in {k \in 1..Len(ops) :
                                /\ ops[k].op = "CreateLink"
                                /\ MapMatchLink(filter, heap[ops[k].link])}}
    IN  Paginate(filter.pagination, SortStrings(Range(getMapIDs(AnyOrder(DOMAIN maps), filter)) \cup staged))

\* Batch.GetValue: a staged set wins, a staged delete gives nil, else the
\* value of the base.
batchGetValue(b, k) ==
    LET ops == batch[b].ops
        S == {i \in 1..Len(ops) : ops[i].op \in {"SetValue", "DeleteValue"} /\ ops[i].key = k}
    IN  IF S = {}
        THEN (IF Has(values, createKey(k))
              THEN [nil |-> FALSE, value |-> values[createKey(k)]]
              ELSE [nil |-> TRUE])
        ELSE IF ops[Max(S)].op = "SetValue"
        THEN [nil |-> FALSE, value |-> ops[Max(S)].value]
        ELSE [nil |-> TRUE]

\* The answer of batch b to the query q.
BatchAnswer(b, q) ==
    CASE q.op = "GetSegment" -> batchGetSegment(b, q.linkHash)
      [] q.op = "GetEvidences" -> BatchEvidences(b, q.linkHash)
      [] q.op = "FindSegments" -> batchFindSegments(b, q.filter)
      [] q.op = "GetMapIDs" -> batchGetMapIDs(b, q.filter)
      [] q.op = "GetValue" -> batchGetValue(b, q.key)

\* What replaying the staged operation op does to the tables t: createLink,
\* addEvidence, setValue and deleteValue of the store.
Replayed(t, op) ==
    CASE op.op = "CreateLink" ->
            IF HashFails(heap[op.link]) THEN t
            ELSE [t EXCEPT
                    !.links = insertLink(@, HashString(heap[op.link]), op.link),
                    !.maps = insertMap(@, heap[op.link].mapId, HashString(heap[op.link]))]
      [] op.op = "AddEvidence" ->
            [t EXCEPT !.evidences = addEvidence(@, op.linkHash, op.evidence).evidences]
      [] op.op = "SetValue" -> [t EXCEPT !.values = Put(@, createKey(op.key), op.value)]
      [] op.op = "DeleteValue" -> [t EXCEPT !.values = Del(@, createKey(op.key))]

RECURSIVE ReplayedAll(_, _)
ReplayedAll(t, ops) ==
    IF ops = <<>> THEN t ELSE ReplayedAll(Replayed(t, Head(ops)), Tail(ops))

\* The answer of a store with the tables t to the query q (the evidences of
\* GetEvidences as a list, empty when there are none).
StoreAnswer(t, q) ==
    CASE q.op = "GetSegment" -> getSegmentIn(t, q.linkHash)
      [] q.op = "GetEvidences" ->
            IF Has(t.evidences, q.linkHash) THEN t.evidences[q.linkHash] ELSE <<>>
      [] q.op = "FindSegments" ->
            findHashesSegmentsIn(t, AnyOrder(candidateHashesIn(t, q.filter)), q.filter)
      [] q.op = "GetMapIDs" -> getMapIDsIn(t, AnyOrder(DOMAIN t.maps), q.filter)
      [] q.op = "GetValue" ->
            IF Has(t.values, createKey(q.key))
            THEN [nil |-> FALSE, value |-> t.values[createKey(q.key)]]
            ELSE [nil |-> TRUE]

\* A task queries batch b: the base is read under its read lock and the
\* staged operations laid over the answer. expect keeps what a store holding
\* the base's content and the staged operations answers.
BatchRead(p, b, q) ==
    /\ pc[p] = "idle"
    /\ batch[b].state = "open"
    /\ CanRLock
    /\ batch' = [batch EXCEPT ![b].read =
                    [req |-> q, result |-> BatchAnswer(b, q),
                     expect |-> StoreAnswer(ReplayedAll(Tables, batch[b].ops), q)]]
    /\ UNCHANGED <<eventChans, files, mock, storeVars, mutex, heap, chanVars, pc, cur, local, calls, hist>>

BatchGetSegment(p, b, h) == BatchRead(p, b, [op |-> "GetSegment", linkHash |-> h])

BatchGetEvidences(p, b, h) == BatchRead(p, b, [op |-> "GetEvidences", linkHash |-> h])

BatchFindSegments(p, b, f) == BatchRead(p, b, [op |-> "FindSegments", filter |-> f])

BatchGetMapIDs(p, b, f) == BatchRead(p, b, [op |-> "GetMapIDs", filter |-> f])

BatchGetValue(p, b, k) == BatchRead(p, b, [op |-> "GetValue", key |-> k])

\* The page a batch asks for: the second segment on.
OverlayFilterInputs ==
    {SegmentFilter(<<>>, "", NilPrev, <<>>, <<>>, Pagination(0, 2)),
     SegmentFilter(<<>>, "", NilPrev, <<>>, <<>>, Pagination(1, 2))}

\* One task that works on the base and on one batch: it stages operations
\* and queries the batch.
NextOverlay ==
    \E p \in {"p1"} :
        \/ \E b \in {"b1"} : NewBatch(p, b)
        \/ \E b \in {"b1"}, l \in {L1, L2} : BatchCreateLink(p, b, l)
        \/ \E b \in {"b1"}, h \in EvidenceHashInputs, e \in {E1} : BatchAddEvidence(p, b, h, e)
        \/ \E b \in {"b1"}, k \in KeyInputs, v \in ValueInputs : BatchSetValue(p, b, k, v)
        \/ \E b \in {"b1"}, k \in KeyInputs : BatchDeleteValue(p, b, k)
        \/ \E b \in {"b1"}, h \in EvidenceHashInputs : BatchGetSegment(p, b, h)
        \/ \E b \in {"b1"}, h \in EvidenceHashInputs : BatchGetEvidences(p, b, h)
        \/ \E b \in {"b1"}, f \in OverlayFilterInputs : BatchFindSegments(p, b, f)
        \/ \E b \in {"b1"}, f \in MapFilterInputs : BatchGetMapIDs(p, b, f)
        \/ \E b \in {"b1"}, k \in KeyInputs : BatchGetValue(p, b, k)
        \/ \E l \in {L1} : CallCreateLink(p, l)
        \/ \E k \in KeyInputs, v \in {"w"} : CallSetValue(p, k, v)
        \/ Lock(p)
        \/ createLinkStore(p)
        \/ createLinkMap(p)
        \/ WriteReturn(p)
        \/ setValue(p)

SpecOverlay == Init /\ [][NextOverlay]_vars

\* The batch a task works on.
BatchOf(p) == IF p = "p1" THEN "b1" ELSE "b2"

\* Two tasks, each with a batch of its own over the same base: p1 stages a
\* link, an evidence and a value and asks its batch for segments; p2 stages
\* another link and queries its batch.
NextBatches ==
    \/ \E p \in {"p1"} :
        \/ NewBatch(p, BatchOf(p))
        \/ \E l \in {L1} : BatchCreateLink(p, BatchOf(p), l)
        \/ \E h \in EvidenceHashInputs, e \in {E1} : BatchAddEvidence(p, BatchOf(p), h, e)
        \/ \E k \in KeyInputs, v \in ValueInputs : BatchSetValue(p, BatchOf(p), k, v)
        \/ \E h \in HashInputs : BatchGetSegment(p, BatchOf(p), h)
    \/ \E p \in {"p2"} :
        \/ NewBatch(p, BatchOf(p))
        \/ \E l \in {L2} : BatchCreateLink(p, BatchOf(p), l)
        \/ \E h \in HashInputs : BatchGetSegment(p, BatchOf(p), h)
        \/ \E h \in EvidenceHashInputs : BatchGetEvidences(p, BatchOf(p), h)
        \/ \E f \in {SegmentFilter(<<>>, "", NilPrev, <<>>, <<>>, Pagination(0, 2))} :
               BatchFindSegments(p, BatchOf(p), f)
        \/ \E f \in MapFilterInputs : BatchGetMapIDs(p, BatchOf(p), f)
        \/ \E k \in KeyInputs : BatchGetValue(p, BatchOf(p), k)

SpecBatches == Init /\ [][NextBatches]_vars

\* ---------------------------------------------------------------- queries
\* L3 is a child of L1 in the map of L1 with the priority of L2; L4 is a
\* second root without priority.
L3 == Link("m1", "p", HashString(L1), <<1>>, <<>>, "s")
L4 == Link("m2", "p", NoHash, <<>>, <<"t1", "t2">>, "s")
FindLinks == {L1, L2, L3, L4}

EmptyTables == [links |-> <<>>, evidences |-> <<>>, values |-> <<>>, maps |-> <<>>]

\* New(config) followed by a CreateLink for each link of created, in that
\* order: a store that holds up to MaxLinks links.
Populated(created) ==
    LET t == ReplayedAll(EmptyTables,
                         [i \in 1..Len(created) |-> [op |-> "CreateLink", link |-> i]])
    IN  /\ heap = created
        /\ links = t.links
        /\ maps = t.maps
        /\ evidences = <<>>
        /\ values = <<>>
        /\ eventChans = <<>>
    /\ mock = NoMock
    /\ files = <<>>
        /\ mutex = [writer |-> None, readers |-> {}]
        /\ chanBuf = [c \in Chans |-> <<>>]
        /\ recvd = [c \in Chans |-> <<>>]
        /\ pc = [p \in Procs |-> "idle"]
        /\ cur = [p \in Procs |-> 0]
        /\ local = [p \in Procs |-> NoLocal]
        /\ calls = <<>>
        /\ hist = <<>>
        /\ batch = [b \in Batches |-> NoBatch]

InitFind ==
    \E S \in {T \in SUBSET FindLinks : Cardinality(T) <= MaxLinks} :
        \E created \in Orders(S) : Populated(created)

\* Filters on every field, alone and combined, with a page that holds every
\* stored segment.
AllPage == Pagination(0, MaxLinks + 1)
FindFilterInputs ==
    {SegmentFilter(<<>>, "", NilPrev, <<>>, <<>>, AllPage),
     SegmentFilter(<<"m1">>, "", NilPrev, <<>>, <<>>, AllPage),
     SegmentFilter(<<"m2">>, "", Prev(NoHash), <<>>, <<>>, AllPage),
     SegmentFilter(<<>>, "", Prev(HashString(L1)), <<>>, <<>>, AllPage),
     SegmentFilter(<<>>, "q", NilPrev, <<"t1">>, <<>>, AllPage),
     SegmentFilter(<<"m2", "m1">>, "p", NilPrev, <<>>, <<HashString(L1), HashString(L4)>>, AllPage)}

\* One task that queries a store holding links.
NextFind ==
    \E p \in {"p1"} :
        \/ \E f \in FindFilterInputs : CallFindSegments(p, f)
        \/ RLock(p)
        \/ FindSegments(p)

SpecFind == InitFind /\ [][NextFind]_vars

\* Links of every kind of priority: two of priority 1, one of priority 2 and
\* two without.
L5 == Link("m1", "q", NoHash, <<2>>, <<>>, "s")
OrderLinks == {L1, L2, L3, L4, L5}

InitOrder ==
    \E S \in {T \in SUBSET OrderLinks : Cardinality(T) <= MaxLinks} :
        \E created \in Orders(S) : Populated(created)

OrderFilterInputs ==
    {SegmentFilter(<<>>, "", NilPrev, <<>>, <<>>, AllPage),
     SegmentFilter(<<>>, "", NilPrev, <<>>, <<>>, Pagination(1, 2))}

\* One task that lists the segments of a store holding links.
NextOrder ==
    \E p \in {"p1"} :
        \/ \E f \in OrderFilterInputs : CallFindSegments(p, f)
        \/ RLock(p)
        \/ FindSegments(p)

SpecOrder == InitOrder /\ [][NextOrder]_vars

\* A store that holds up to MaxLinks of the links, created in one order.
InitPages ==
    \E S \in {T \in SUBSET FindLinks : Cardinality(T) <= MaxLinks} :
        Populated(AnyOrder(S))

\* Pages of the list of every segment and of every map id: an empty page, the
\* pages of two at offsets 0 and 2 and a page of one inside the list, and for
\* the map ids an empty page and the pages of one at offsets 0 and 1.
SegmentPageInputs ==
    {SegmentFilter(<<>>, "", NilPrev, <<>>, <<>>, pg) :
        pg \in {Pagination(0, 0), Pagination(0, 2), Pagination(2, 2), Pagination(1, 1)}}

MapPageInputs ==
    {MapFilter("", pg) : pg \in {Pagination(0, 0), Pagination(0, 1), Pagination(1, 1)}}

\* One task that asks a store holding links for pages of segments and of map ids.
NextPages ==
    \E p \in {"p1"} :
        \/ \E f \in SegmentPageInputs : CallFindSegments(p, f)
        \/ \E f \in MapPageInputs : CallGetMapIDs(p, f)
        \/ RLock(p)
        \/ FindSegments(p)
        \/ GetMapIDs(p)

SpecPages == InitPages /\ [][NextPages]_vars

\* Map filters: every process and none, with a page that holds every map id
\* and pages of one.
MapProcessInputs ==
    {MapFilter("", Pagination(0, 2)),
     MapFilter("p", Pagination(0, 2)),
     MapFilter("q", Pagination(0, 2)),
     MapFilter("p", Pagination(1, 1)),
     MapFilter("q", Pagination(0, 1))}

\* One task that lists the map ids of a store holding links.
NextMaps ==
    \E p \in {"p1"} :
        \/ \E f \in MapProcessInputs : CallGetMapIDs(p, f)
        \/ RLock(p)
        \/ GetMapIDs(p)

SpecMaps == InitFind /\ [][NextMaps]_vars

\* Two tasks that create links, two of them of one map, and list the map ids.
NextIndex ==
    \E p \in Procs :
        \/ \E l \in {L1, L2, L3} : CallCreateLink(p, l)
        \/ \E f \in MapFilterInputs : CallGetMapIDs(p, f)
        \/ Lock(p)
        \/ RLock(p)
        \/ createLinkStore(p)
        \/ createLinkMap(p)
        \/ WriteReturn(p)
        \/ GetMapIDs(p)

SpecIndex == Init /\ [][NextIndex]_vars

\* Two tasks that add evidences of two (backend, provider) pairs to a hash,
\* create its link, read the evidences and write the key-value table.
NextEvidence ==
    \E p \in Procs :
        \/ \E l \in {L1} : CallCreateLink(p, l)
        \/ \E h \in EvidenceHashInputs, e \in {E1, E2, E3} : CallAddEvidence(p, h, e)
        \/ \E h \in EvidenceHashInputs : CallGetEvidences(p, h)
        \/ \E k \in KeyInputs, v \in ValueInputs : CallSetValue(p, k, v)
        \/ \E k \in KeyInputs : CallDeleteValue(p, k)
        \/ Lock(p)
        \/ RLock(p)
        \/ createLinkStore(p)
        \/ createLinkMap(p)
        \/ AddEvidenceErr(p)
        \/ AddEvidenceStore(p)
        \/ WriteReturn(p)
        \/ GetEvidences(p)
        \/ setValue(p)
        \/ deleteValueAbsent(p)
        \/ deleteValue(p)

SpecEvidence == Init /\ [][NextEvidence]_vars

\* New(config) followed by the registration of the buffered sink.
InitSink ==
    /\ eventChans = <<"c1">>
    /\ mock = NoMock
    /\ files = <<>>
    /\ links = <<>>
    /\ evidences = <<>>
    /\ values = <<>>
    /\ maps = <<>>
    /\ mutex = [writer |-> None, readers |-> {}]
    /\ heap = <<>>
    /\ chanBuf = [c \in Chans |-> <<>>]
    /\ recvd = [c \in Chans |-> <<>>]
    /\ pc = [p \in Procs |-> "idle"]
    /\ cur = [p \in Procs |-> 0]
    /\ local = [p \in Procs |-> NoLocal]
    /\ calls = <<>>
    /\ hist = <<>>
    /\ batch = [b \in Batches |-> NoBatch]

KVKeyInputs == {<<10>>, <<11>>}
KVValueInputs == {"v", "w"}

\* One task that sets, gets and deletes two keys, creates a link and adds an
\* evidence, and a sink that takes the events.
NextKV ==
    \/ \E p \in {"p1"} :
        \/ \E k \in KVKeyInputs, v \in KVValueInputs : CallSetValue(p, k, v)
        \/ \E k \in KVKeyInputs : CallGetValue(p, k)
        \/ \E k \in KVKeyInputs : CallDeleteValue(p, k)
        \/ \E l \in {L1} : CallCreateLink(p, l)
        \/ \E h \in EvidenceHashInputs, e \in {E1} : CallAddEvidence(p, h, e)
        \/ Lock(p)
        \/ RLock(p)
        \/ createLinkStore(p)
        \/ createLinkMap(p)
        \/ AddEvidenceErr(p)
        \/ AddEvidenceStore(p)
        \/ SendBuffered(p)
        \/ WriteReturn(p)
        \/ GetValue(p)
        \/ setValue(p)
        \/ deleteValueAbsent(p)
        \/ deleteValue(p)
    \/ \E c \in {"c1"} : SinkRecv(c)

SpecKV == InitSink /\ [][NextKV]_vars

\* ---------------------------------------------------------- sink tasks
\* The task that takes the events of the registered sink; it is at its
\* receive when it is idle, and not while it is inside a call of the store.
SinkTask == "p2"
Writer == "p1"

\* New(config) followed by the registration of one sink, the unbuffered or
\* the buffered one.
InitCallback ==
    /\ \E c \in Chans : eventChans = <<c>>
    /\ mock = NoMock
    /\ files = <<>>
    /\ links = <<>>
    /\ evidences = <<>>
    /\ values = <<>>
    /\ maps = <<>>
    /\ mutex = [writer |-> None, readers |-> {}]
    /\ heap = <<>>
    /\ chanBuf = [c \in Chans |-> <<>>]
    /\ recvd = [c \in Chans |-> <<>>]
    /\ pc = [p \in Procs |-> "idle"]
    /\ cur = [p \in Procs |-> 0]
    /\ local = [p \in Procs |-> NoLocal]
    /\ calls = <<>>
    /\ hist = <<>>
    /\ batch = [b \in Batches |-> NoBatch]

\* c <- event on an unbuffered channel: the send completes when the task of
\* the sink is at its receive.
SendUnbufferedToTask(p) ==
    /\ pc[SinkTask] = "idle"
    /\ SendUnbuffered(p)

\* The task of the sink, at its receive, takes the next buffered event.
SinkTaskRecv(c) ==
    /\ pc[SinkTask] = "idle"
    /\ SinkRecv(c)

\* A writer that creates links, and the task of the sink, which takes the
\* events and also calls GetSegment and SetValue of the same store.
NextCallback ==
    \/ \E l \in {L1, L2} : CallCreateLink(Writer, l)
    \/ Lock(Writer)
    \/ createLinkStore(Writer)
    \/ createLinkMap(Writer)
    \/ SendUnbufferedToTask(Writer)
    \/ SendBuffered(Writer)
    \/ WriteReturn(Writer)
    \/ \E c \in Chans : SinkTaskRecv(c)
    \/ \E h \in EvidenceHashInputs : CallGetSegment(SinkTask, h)
    \/ \E k \in KeyInputs, v \in ValueInputs : CallSetValue(SinkTask, k, v)
    \/ RLock(SinkTask)
    \/ Lock(SinkTask)
    \/ GetSegment(SinkTask)
    \/ setValue(SinkTask)

SpecCallback == InitCallback /\ [][NextCallback]_vars

\* ------------------------------------------------------- agent: CreateMap
\* client.SegmentRef: a process, a link hash and a segment, each possibly unset.
SegmentRef(process, linkHash, segment) ==
    [process |-> process, linkHash |-> linkHash, segment |-> segment]

NoSegment == [nil |-> TRUE]
RefPair == SegmentRef("other", HashString(L2), NoSegment)
RefSegment ==
    SegmentRef("", NoHash,
               [nil |-> FALSE, link |-> L2,
                meta |-> [linkHash |-> HashString(L2), evidences |-> <<>>]])
RefProcessOnly == SegmentRef("wrong", NoHash, NoSegment)
RefHashOnly == SegmentRef("", HashString(L2), NoSegment)

\* A check that takes a process alone for a reference.
ValidRefProcess(r) == ~r.segment.nil \/ r.process # ""

\* A reference is a full segment or a (process, linkHash) pair.
ValidRef(r) == ~r.segment.nil \/ (r.process # "" /\ r.linkHash # NoHash)

ErrBadRef == "missing segment or (process and linkHash)"
ErrNoTitle == "a title is required"

\* The calls of CreateMap: a process, references and the arguments of init.
CreateMapInputs ==
    {[op |-> "CreateMap", process |-> "p", refs |-> refs, args |-> <<"title">>] :
        refs \in {<<>>, <<RefPair>>, <<RefSegment>>, <<RefProcessOnly>>,
                  <<RefHashOnly>>, <<RefPair, RefProcessOnly>>}}
    \cup {[op |-> "CreateMap", process |-> "p", refs |-> <<>>, args |-> <<>>]}

CallCreateMap(p, r) ==
    /\ Invoke(p, r)
    /\ UNCHANGED <<batch, eventChans, files, mock, storeVars, mutex, heap, chanVars, local, hist>>

\* CreateMap: a reference is neither a segment nor a pair.
CreateMapBadRefs(p) ==
    /\ pc[p] = "CreateMap"
    /\ \E i \in 1..Len(Req(p).refs) : ~ValidRef(Req(p).refs[i])
    /\ Return(p, "err", ErrBadRef)
    /\ UNCHANGED <<batch, eventChans, files, mock, storeVars, mutex, heap, chanVars, hist>>

\* CreateMap: the arguments of init lack the title.
CreateMapNoTitle(p) ==
    /\ pc[p] = "CreateMap"
    /\ \A i \in 1..Len(Req(p).refs) : ValidRef(Req(p).refs[i])
    /\ Req(p).args = <<>>
    /\ Return(p, "err", ErrNoTitle)
    /\ UNCHANGED <<batch, eventChans, files, mock, storeVars, mutex, heap, chanVars, hist>>

\* The id of the map CreateMap makes: one no map has yet.
NewMapID == CHOOSE m \in Range(MapIDList) \ DOMAIN maps :
                \A n \in Range(MapIDList) \ DOMAIN maps :
                    IndexOf(MapIDList, m) <= IndexOf(MapIDList, n)

\* CreateMap: the first link of a new map is built, with the references in
\* its meta, and created in the store, which sends the event to the sink;
\* the segment is returned.
CreateMapOK(p) ==
    /\ pc[p] = "CreateMap"
    /\ \A i \in 1..Len(Req(p).refs) : ValidRef(Req(p).refs[i])
    /\ Req(p).args # <<>>
    /\ Range(MapIDList) \ DOMAIN maps # {}
    /\ mutex.writer = None /\ mutex.readers = {}
    /\ \A i \in 1..Len(eventChans) : Len(chanBuf[eventChans[i]]) < ChanCap(eventChans[i])
    /\ LET l == Link(NewMapID, Req(p).process, NoHash, <<>>, <<>>, "s")
           o == Len(heap) + 1
       IN  /\ heap' = Append(heap, l)
           /\ links' = insertLink(links, HashString(l), o)
           /\ maps' = insertMap(maps, l.mapId, HashString(l))
           /\ chanBuf' = [c \in Chans |->
                             IF c \in Range(eventChans)
                             THEN Append(chanBuf[c], NewSavedLinks(cur[p], l))
                             ELSE chanBuf[c]]
           /\ Return(p, "ok", [nil |-> FALSE, link |-> l, refs |-> Req(p).refs,
                               meta |-> [linkHash |-> HashString(l), evidences |-> <<>>]])
    /\ hist' = Append(hist, cur[p])
    /\ UNCHANGED <<batch, eventChans, files, mock, evidences, values, mutex, recvd>>

\* One client of the agent, over a store with a registered sink.
NextAgent ==
    \/ \E p \in {"p1"} :
        \/ \E r \in CreateMapInputs : CallCreateMap(p, r)
        \/ CreateMapBadRefs(p)
        \/ CreateMapNoTitle(p)
        \/ CreateMapOK(p)
    \/ \E c \in {"c1"} : SinkRecv(c)

SpecAgent == InitSink /\ [][NextAgent]_vars

\* ------------------------------------------------------ couchstore queries
\* The JSON object json.Marshal writes: the keys present, each with its value.
JSONObject(fields) ==
    [k \in {f[1] : f \in fields} |-> (CHOOSE f \in fields : f[1] = k)[2]]

objectTypeLink == "link"
objectTypeMap == "map"

\* A selector that compares with $eq whatever the pointer points to.
prevLinkHashSelectorEq(filter) ==
    IF filter.prevLinkHash.set
    THEN [nil |-> FALSE, Exists |-> <<>>, Equals |-> filter.prevLinkHash.val]
    ELSE [nil |-> TRUE]

\* NewSegmentQuery, linkSelector.PrevLinkHash: nil for a nil filter field,
\* Exists: &no for a pointer to the empty string, else Equals: the value.
prevLinkHashSelector(filter) ==
    IF filter.prevLinkHash.set
    THEN IF filter.prevLinkHash.val = NoHash
         THEN [nil |-> FALSE, Exists |-> <<FALSE>>, Equals |-> NoHash]
         ELSE [nil |-> FALSE, Exists |-> <<>>, Equals |-> filter.prevLinkHash.val]
    ELSE [nil |-> TRUE]

\* json.Marshal of a PrevLinkHash: both fields are omitempty.
MarshalPrevLinkHash(x) ==
    JSONObject((IF x.Exists = <<>> THEN {} ELSE {<<"$exists", x.Exists[1]>>})
               \cup (IF x.Equals = NoHash THEN {} ELSE {<<"$eq", x.Equals>>}))

\* json.Marshal of MapIdsIn, TagsAll and LinkHashIn: the list under key op,
\* omitted when empty.
MarshalList(op, list) == JSONObject(IF list = <<>> THEN {} ELSE {<<op, list>>})

\* json.Marshal of a LinkSelector: docType always, the others omitempty.
MarshalLinkSelector(sel) ==
    JSONObject({<<"docType", sel.ObjectType>>}
               \cup (IF sel.PrevLinkHash.nil THEN {}
                     ELSE {<<"link.meta.prevLinkHash", MarshalPrevLinkHash(sel.PrevLinkHash)>>})
               \cup (IF sel.Process = "" THEN {} ELSE {<<"link.meta.process", sel.Process>>})
               \cup (IF sel.MapIds.nil THEN {}
                     ELSE {<<"link.meta.mapId", MarshalList("$in", sel.MapIds.list)>>})
               \cup (IF sel.Tags.nil THEN {}
                     ELSE {<<"link.meta.tags", MarshalList("$all", sel.Tags.list)>>})
               \cup (IF sel.LinkHash.nil THEN {}
                     ELSE {<<"_id", MarshalList("$in", sel.LinkHash.list)>>}))

\* json.Marshal of a MapSelector.
MarshalMapSelector(sel) ==
    JSONObject({<<"docType", sel.ObjectType>>}
               \cup (IF sel.Process = "" THEN {} ELSE {<<"process", sel.Process>>}))

\* json.Marshal of a LinkQuery or MapQuery: the selector is a struct, which
\* omitempty never omits; limit and skip are ints, omitted when 0.
MarshalQuery(selector, limit, skip) ==
    JSONObject({<<"selector", selector>>}
               \cup (IF limit = 0 THEN {} ELSE {<<"limit", limit>>})
               \cup (IF skip = 0 THEN {} ELSE {<<"skip", skip>>}))

\* A pointer to a list struct, nil when the list is empty.
ListPointer(list) ==
    IF Len(list) > 0 THEN [nil |-> FALSE, list |-> list] ELSE [nil |-> TRUE]

NewSegmentQuery(filter) ==
    LET linkSelector == [ObjectType |-> objectTypeLink,
                         PrevLinkHash |-> prevLinkHashSelector(filter),
                         Process |-> filter.process,
                         MapIds |-> ListPointer(filter.mapIDs),
                         Tags |-> ListPointer(filter.tags),
                         LinkHash |-> ListPointer(filter.linkHashes)]
    IN  MarshalQuery(MarshalLinkSelector(linkSelector),
                     filter.pagination.limit, filter.pagination.offset)

NewMapQuery(filter) ==
    LET mapSelector == [ObjectType |-> objectTypeMap, Process |-> filter.process]
    IN  MarshalQuery(MarshalMapSelector(mapSelector),
                     filter.pagination.limit, filter.pagination.offset)

\* Segment filters: prevLinkHash nil, a pointer to "" and a pointer to a
\* hash, with the other fields all unset or all set, and pages of limits 0 and 2.
SegmentQueryInputs ==
    {SegmentFilter(rest[1], rest[2], prev, rest[3], rest[4], pg) :
        prev \in {NilPrev, Prev(NoHash), Prev(HashString(L1))},
        rest \in {<<<<>>, "", <<>>, <<>>>>,
                  <<<<"m1">>, "p", <<"t1">>, <<HashString(L2)>>>>},
        pg \in {Pagination(0, 0), Pagination(1, 2)}}

MapQueryInputs ==
    {MapFilter(pr, pg) : pr \in {"", "p"}, pg \in {Pagination(0, 0), Pagination(1, 2)}}

CallNewSegmentQuery(p, f) ==
    /\ Invoke(p, [op |-> "NewSegmentQuery", filter |-> f])
    /\ UNCHANGED <<batch, eventChans, files, mock, storeVars, mutex, heap, chanVars, local, hist>>

CallNewMapQuery(p, f) ==
    /\ Invoke(p, [op |-> "NewMapQuery", filter |-> f])
    /\ UNCHANGED <<batch, eventChans, files, mock, storeVars, mutex, heap, chanVars, local, hist>>

\* return json.Marshal(linkQuery)
NewSegmentQueryReturn(p) ==
    /\ pc[p] = "NewSegmentQuery"
    /\ Return(p, "ok", NewSegmentQuery(Req(p).filter))
    /\ UNCHANGED <<batch, eventChans, files, mock, storeVars, mutex, heap, chanVars, hist>>

\* return json.Marshal(mapQuery)
NewMapQueryReturn(p) ==
    /\ pc[p] = "NewMapQuery"
    /\ Return(p, "ok", NewMapQuery(Req(p).filter))
    /\ UNCHANGED <<batch, eventChans, files, mock, storeVars, mutex, heap, chanVars, hist>>

\* One task that builds queries from filters.
NextQuery ==
    \E p \in {"p1"} :
        \/ \E f \in SegmentQueryInputs : CallNewSegmentQuery(p, f)
        \/ \E f \in MapQueryInputs : CallNewMapQuery(p, f)
        \/ NewSegmentQueryReturn(p)
        \/ NewMapQueryReturn(p)

SpecQuery == Init /\ [][NextQuery]_vars

\* ------------------------------------------------------------ mock adapter
\* What a test sets as Fn: nothing, a function that returns a value, or one
\* that returns errors.New("test").
FnKinds == {NilFn, "value", "error"}
Nil == [nil |-> TRUE]

\* A mock that counts the call and forgets its argument.
MockCalledCounted(m, arg) == [m EXCEPT !.CalledCount = @ + 1]

\* a.MockX.CalledCount++; CalledWith = append(CalledWith, arg);
\* LastCalledWith = arg
MockCalled(m, arg) ==
    [m EXCEPT !.CalledCount = @ + 1,
              !.CalledWith = Append(@, arg),
              !.LastCalledWith = arg]

\* if a.MockX.Fn != nil { return a.MockX.Fn(arg) }; return nil, nil
MockReturns(m, value) ==
    CASE m.Fn = NilFn -> [value |-> Nil, err |-> None]
      [] m.Fn = "value" -> [value |-> value, err |-> None]
      [] OTHER -> [value |-> Nil, err |-> "test"]

\* What a call of Fn returns to the caller of the mock.
FnResult == [AddDidSaveChannel |-> Nil,
             SaveSegment |-> Nil,
             GetSegment |-> [link |-> L1, meta |-> [linkHash |-> HashString(L1)]],
             DeleteSegment |-> [link |-> L1, meta |-> [linkHash |-> HashString(L1)]],
             FindSegments |-> <<[link |-> L1, meta |-> [linkHash |-> HashString(L1)]]>>,
             GetMapIDs |-> <<"one", "two", "three">>]

\* The arguments of the calls: two pointers.
MockArgInputs == {"x", "y"}

\* A test calls an operation of the mock adapter.
CallMock(p, op, arg) ==
    /\ Invoke(p, [op |-> "MockCall", mock |-> op, arg |-> arg])
    /\ UNCHANGED <<batch, eventChans, files, mock, storeVars, mutex, heap, chanVars, local, hist>>

\* The first three statements of every operation: the call is recorded.
MockRecord(p) ==
    /\ pc[p] = "MockCall"
    /\ mock' = [mock EXCEPT ![Req(p).mock] = MockCalled(@, Req(p).arg)]
    /\ pc' = [pc EXCEPT ![p] = "MockFn"]
    /\ UNCHANGED <<batch, eventChans, files, storeVars, mutex, heap, chanVars, cur, local, calls, hist>>

\* The rest: Fn is called when there is one, and what it returns is returned;
\* the Fn of AddDidSaveChannel returns nothing.
MockFn(p) ==
    /\ pc[p] = "MockFn"
    /\ LET op == Req(p).mock
           out == IF op = "AddDidSaveChannel"
                  THEN [value |-> Nil, err |-> None]
                  ELSE MockReturns(mock[op], FnResult[op])
       IN  Return(p, IF out.err = None THEN "ok" ELSE "err", out)
    /\ UNCHANGED <<batch, eventChans, files, mock, storeVars, mutex, heap, chanVars, hist>>

\* One test calls the operations of a mock adapter one after the other.
NextMock ==
    \E p \in {"p1"} :
        \/ \E op \in MockOps, arg \in MockArgInputs : CallMock(p, op, arg)
        \/ MockRecord(p)
        \/ MockFn(p)

\* ------------------------------------------------------------ HTTP server
\* strconv.Atoi on the characters of a query parameter: an optional sign,
\* then decimal digits and nothing else.
Digits == <<"0", "1", "2", "3", "4", "5", "6", "7", "8", "9">>
Unsigned(s) == IF s # <<>> /\ s[1] \in {"+", "-"} THEN Tail(s) ELSE s
IsInteger(s) ==
    /\ Unsigned(s) # <<>>
    /\ \A i \in 1..Len(Unsigned(s)) : IndexOf(Digits, Unsigned(s)[i]) # 0

RECURSIVE DigitsValue(_)
DigitsValue(d) ==
    IF d = <<>> THEN 0
    ELSE 10 * DigitsValue(SubSeq(d, 1, Len(d) - 1)) + (IndexOf(Digits, d[Len(d)]) - 1)

Atoi(s) == IF s[1] = "-" THEN 0 - DigitsValue(Unsigned(s)) ELSE DigitsValue(Unsigned(s))

ErrOffset == [Status |-> 400, Msg |-> "invalid offset"]
ErrLimit == [Status |-> 400, Msg |-> "invalid limit"]
ErrBadRequest == [Status |-> 400, Msg |-> "bad request"]
ErrLinkHash == [Status |-> 400, Msg |-> "meta.linkHash should be a non empty string"]
ErrNotFound == [Status |-> 404, Msg |-> "not found"]
ErrInternalServer == [Status |-> 500, Msg |-> "internal server error"]

\* The limit of a request that gives none.
DefaultLimit == 20

\* A query: the characters of offset and of limit, <<>> for a parameter the
\* URL does not have.
Query(offset, limit) == [offset |-> offset, limit |-> limit]

\* offset is given and is not an integer.
OffsetError(q) == q.offset # <<>> /\ ~IsInteger(q.offset)

\* offset is an integer below zero: the rules of the query parameters do not
\* say whether the server refuses it.
OffsetNegative(q) == q.offset # <<>> /\ IsInteger(q.offset) /\ Atoi(q.offset) < 0

\* A check of limit that looks at the syntax alone.
LimitErrorSyntax(q) == q.limit # <<>> /\ ~IsInteger(q.limit)

\* limit is given and is not an integer, or is below zero.
LimitError(q) == q.limit # <<>> /\ (~IsInteger(q.limit) \/ Atoi(q.limit) < 0)

\* The errors the server may answer to a query.
PaginationErrors(q) ==
    (IF OffsetError(q) \/ OffsetNegative(q) THEN {ErrOffset} ELSE {})
    \cup (IF LimitError(q) THEN {ErrLimit} ELSE {})

\* The pagination of a query the server accepts.
ParsePagination(q) ==
    Pagination(IF q.offset = <<>> THEN 0 ELSE Atoi(q.offset),
               IF q.limit = <<>> THEN DefaultLimit ELSE Atoi(q.limit))

\* The body of a request: text that is not JSON, a JSON value, or the JSON
\* object of a segment, whose meta.linkHash is any JSON value (its type, and
\* its characters when it is a string).
JSONString(v) == [type |-> "string", v |-> v]
JSONTrue == [type |-> "bool", v |-> <<>>]
Malformed == [type |-> "malformed"]
SegmentBody(l, linkHash) == [type |-> "object", link |-> l, linkHash |-> linkHash]

\* json.NewDecoder(r.Body).Decode(&segment)
Decodes(body) == body.type = "object"

\* segment.Validate(): meta.linkHash is a non empty string.
ValidSegment(body) == body.linkHash.type = "string" /\ body.linkHash.v # NoHash

\* GET /segments/{hash} of the tests: /segments/abcde.
SegmentPath == "/segments/abcde"
SegmentPathHash == "abcde"

\* The adapter operation of each route.
Route(r) ==
    CASE r.method = "POST" /\ r.path = "/segments" -> "SaveSegment"
      [] r.method = "GET" /\ r.path = "/segments" -> "FindSegments"
      [] r.method = "GET" /\ r.path = SegmentPath -> "GetSegment"
      [] r.method = "GET" /\ r.path = "/maps" -> "GetMapIDs"

\* The errors the server may answer to a request before it calls the adapter.
RequestErrors(r) ==
    IF Route(r) = "SaveSegment"
    THEN IF ~Decodes(r.body) THEN {ErrBadRequest}
         ELSE IF ~ValidSegment(r.body) THEN {ErrLinkHash} ELSE {}
    ELSE IF Route(r) = "GetSegment" THEN {}
    ELSE PaginationErrors(r.query)

\* The server must refuse the request.
MustRefuse(r) ==
    IF Route(r) = "SaveSegment"
    THEN RequestErrors(r) # {}
    ELSE IF Route(r) = "GetSegment" THEN FALSE
    ELSE OffsetError(r.query) \/ LimitError(r.query)

\* The argument the adapter gets.
AdapterArg(r) ==
    IF Route(r) = "SaveSegment"
    THEN [link |-> r.body.link, meta |-> [linkHash |-> r.body.linkHash.v]]
    ELSE IF Route(r) = "GetSegment" THEN SegmentPathHash
    ELSE ParsePagination(r.query)

\* What a Fn that returns a value returns.
FnValue(r) ==
    CASE Route(r) = "SaveSegment" -> Nil
      [] Route(r) = "GetSegment" -> [link |-> L1, meta |-> [linkHash |-> HashString(L1)]]
      [] Route(r) = "FindSegments" -> <<[link |-> L1, meta |-> [linkHash |-> HashString(L1)]]>>
      [] Route(r) = "GetMapIDs" -> <<"one", "two", "three">>

Get(path, offset, limit) ==
    [op |-> "ServeHTTP", method |-> "GET", path |-> path,
     query |-> Query(offset, limit), body |-> Malformed]
Post(path, body) ==
    [op |-> "ServeHTTP", method |-> "POST", path |-> path,
     query |-> Query(<<>>, <<>>), body |-> body]

\* The requests: pages given or not, offsets and limits that are not
\* integers, that are negative, alone and together; bodies that are not
\* JSON, not an object, a segment with a link hash of the wrong type, an
\* empty one, a good one.
HTTPInputs ==
    {Get("/segments", q[1], q[2]) :
        q \in {<<<<>>, <<>>>>, <<<<"1">>, <<"2">>>>, <<<<"h", "i">>, <<>>>>,
               <<<<"1", ".", "5">>, <<"2">>>>, <<<<>>, <<"-", "1">>>>,
               <<<<"1">>, <<"x">>>>, <<<<"h", "i">>, <<"-", "1">>>>,
               <<<<"-", "1">>, <<>>>>}}
    \cup {Get("/maps", q[1], q[2]) :
        q \in {<<<<>>, <<>>>>, <<<<"2", "0">>, <<"1", "0">>>>,
               <<<<>>, <<"-", "1">>>>, <<<<"h", "i">>, <<"1">>>>}}
    \cup {Get(SegmentPath, <<>>, <<>>)}
    \cup {Post("/segments", b) :
        b \in {Malformed, JSONString(<<"a", "z">>),
               SegmentBody(L1, JSONTrue), SegmentBody(L1, JSONString(NoHash)),
               SegmentBody(L1, JSONString(HashString(L1)))}}

\* An answer that takes the nil segment of GetSegment for a value.
AnswerValue(r, out) ==
    IF out.err # None THEN ErrInternalServer
    ELSE [Status |-> 200,
          Body |-> IF Route(r) = "SaveSegment" THEN AdapterArg(r) ELSE out.value]

\* The answer to what the adapter returned: 500 to an error, 404 to the nil
\* segment of GetSegment, 200 and the value otherwise (for SaveSegment, the
\* segment of the request).
Answer(r, out) ==
    IF out.err # None THEN ErrInternalServer
    ELSE IF Route(r) = "GetSegment" /\ out.value = Nil THEN ErrNotFound
    ELSE [Status |-> 200,
          Body |-> IF Route(r) = "SaveSegment" THEN AdapterArg(r) ELSE out.value]

\* The server gets a request.
CallServeHTTP(p, r) ==
    /\ Invoke(p, r)
    /\ UNCHANGED <<batch, eventChans, files, mock, storeVars, mutex, heap, chanVars, local, hist>>

\* The server refuses the request: the adapter is not called.
ServeHTTPRefuse(p) ==
    /\ pc[p] = "ServeHTTP"
    /\ \E e \in RequestErrors(Req(p)) : Return(p, "err", e)
    /\ UNCHANGED <<batch, eventChans, files, mock, storeVars, mutex, heap, chanVars, hist>>

\* The server calls the operation of the adapter, which records the call and
\* runs Fn, and answers what the adapter returned.
ServeHTTPAdapter(p) ==
    /\ pc[p] = "ServeHTTP"
    /\ ~MustRefuse(Req(p))
    /\ LET op == Route(Req(p))
           out == MockReturns(mock[op], FnValue(Req(p)))
           res == Answer(Req(p), out)
       IN  /\ mock' = [mock EXCEPT ![op] = MockCalled(@, AdapterArg(Req(p)))]
           /\ Return(p, IF res.Status = 200 THEN "ok" ELSE "err", res)
    /\ UNCHANGED <<batch, eventChans, files, storeVars, mutex, heap, chanVars, hist>>

\* createServer(), then the test sets Fn of the mocks or leaves it nil.
InitHTTP ==
    /\ eventChans = <<>>
    /\ \E fn \in FnKinds : mock = [op \in MockOps |-> [ZeroMock EXCEPT !.Fn = fn]]
    /\ files = <<>>
    /\ links = <<>>
    /\ evidences = <<>>
    /\ values = <<>>
    /\ maps = <<>>
    /\ mutex = [writer |-> None, readers |-> {}]
    /\ heap = <<>>
    /\ chanBuf = [c \in Chans |-> <<>>]
    /\ recvd = [c \in Chans |-> <<>>]
    /\ pc = [p \in Procs |-> "idle"]
    /\ cur = [p \in Procs |-> 0]
    /\ local = [p \in Procs |-> NoLocal]
    /\ calls = <<>>
    /\ hist = <<>>
    /\ batch = [b \in Batches |-> NoBatch]

\* One client of the server.
NextHTTP ==
    \E p \in {"p1"} :
        \/ \E r \in HTTPInputs : CallServeHTTP(p, r)
        \/ ServeHTTPRefuse(p)
        \/ ServeHTTPAdapter(p)

SpecHTTP == InitHTTP /\ [][NextHTTP]_vars

SpecMock == InitHTTP /\ [][NextMock]_vars

\* Two tasks add evidences to the hash of a link, before or after they create
\* the link, and read the segment and the evidences of the hash; a buffered
\* sink takes the events.
NextOrphan ==
    \/ \E p \in Procs :
        \/ \E l \in {L1} : CallCreateLink(p, l)
        \/ \E h \in EvidenceHashInputs, e \in {E1, E3} : CallAddEvidence(p, h, e)
        \/ \E h \in EvidenceHashInputs : CallGetSegment(p, h)
        \/ \E h \in EvidenceHashInputs : CallGetEvidences(p, h)
        \/ Lock(p)
        \/ RLock(p)
        \/ createLinkStore(p)
        \/ createLinkMap(p)
        \/ AddEvidenceErr(p)
        \/ AddEvidenceStore(p)
        \/ SendBuffered(p)
        \/ WriteReturn(p)
        \/ GetSegment(p)
        \/ GetEvidences(p)
    \/ \E c \in {"c1"} : SinkRecv(c)

SpecOrphan == InitSink /\ [][NextOrphan]_vars

\* ------------------------------------------------- generator repository
\* Paths are lists of names below r.path; files maps the path of each file
\* to its content.
StatesDir == "states"
StateFile == "repo.json"
SrcDir == "src"
DefinitionFile == "generator.json"

Refs == {"master"}
SHA1s == {"a", "b"}

\* A file that was created or truncated and not written.
EmptyFile == [empty |-> TRUE]

\* State{Owner, Repo, Ref, SHA1} of the repository r.owner/r.repo.
State(ref, sha1) ==
    [empty |-> FALSE, Owner |-> "owner", Repo |-> "repo", Ref |-> ref, SHA1 |-> sha1]

\* filepath.Join(r.path, StatesDir, ref, StateFile)
StatePath(ref) == <<StatesDir, ref, StateFile>>

\* The tarball of a commit: a directory named after the commit, and in it
\* one directory per generator with its definition file. Commit a has the
\* generators g1 and g2, commit b has g1 alone.
TarEntry(sha1, gen) ==
    [Typeflag |-> "reg", Name |-> <<sha1, gen, DefinitionFile>>,
     content |-> [empty |-> FALSE, Name |-> gen, sha1 |-> sha1]]
Archive(sha1) ==
    <<[Typeflag |-> "dir", Name |-> <<sha1>>]>>
    \o (IF sha1 = "a" THEN <<TarEntry(sha1, "g1"), TarEntry(sha1, "g2")>>
        ELSE <<TarEntry(sha1, "g1")>>)

\* parts[1:] joined below r.path/src/ref
SrcPath(ref, name) == <<SrcDir, ref>> \o Tail(name)

\* The files below r.path/src/ref.
SrcFiles(fs, ref) ==
    {path \in DOMAIN fs : Len(path) > 2 /\ path[1] = SrcDir /\ path[2] = ref}

\* os.RemoveAll(filepath.Join(r.path, SrcDir, ref))
RemoveAll(fs, ref) == [path \in DOMAIN fs \ SrcFiles(fs, ref) |-> fs[path]]

\* GetState: nil when the state file does not exist, an error when it does
\* not decode, else the state it holds.
GetState(fs, ref) ==
    IF ~Has(fs, StatePath(ref)) THEN [err |-> FALSE, state |-> Nil]
    ELSE IF fs[StatePath(ref)].empty THEN [err |-> TRUE, state |-> Nil]
    ELSE [err |-> FALSE, state |-> [nil |-> FALSE, file |-> fs[StatePath(ref)]]]

\* The calls: Update, GetStateOrCreate, List and Generate of a generator.
RepoInputs ==
    {[op |-> op, ref |-> ref, name |-> "g2"] :
        op \in {"Update", "GetStateOrCreate", "List", "Generate"}, ref \in Refs}

CallRepo(p, r) ==
    /\ Invoke(p, r)
    /\ UNCHANGED <<batch, eventChans, files, mock, storeVars, mutex, heap, chanVars, local, hist>>

\* The locals of Update and of download.
RepoLocal(state, sha1, tr) == [state |-> state, sha1 |-> sha1, tr |-> tr]

\* Update returns (state, updated, nil): to its caller, or to
\* GetStateOrCreate, which returns the state to its caller or to List and
\* Generate, which go on to the definition files.
UpdateReturns(p, state, updated) ==
    IF Req(p).op = "Update"
    THEN Return(p, "ok", [state |-> state, updated |-> updated])
    ELSE IF Req(p).op = "GetStateOrCreate"
    THEN Return(p, "ok", state)
    ELSE /\ pc' = [pc EXCEPT ![p] = "Glob"]
         /\ UNCHANGED <<cur, local, calls>>

\* Update: state, err := r.GetState(ref), and the error returned.
UpdateGetState(p) ==
    /\ pc[p] = "Update"
    /\ LET g == GetState(files, Req(p).ref) IN
        IF g.err
        THEN Return(p, "err", "decode")
        ELSE /\ local' = [local EXCEPT ![p] = RepoLocal(g.state, "", <<>>)]
             /\ pc' = [pc EXCEPT ![p] = "GetCommitSHA1"]
             /\ UNCHANGED <<cur, calls>>
    /\ UNCHANGED <<batch, eventChans, files, mock, storeVars, mutex, heap, chanVars, hist>>

\* GetStateOrCreate (and through it List and Generate): the state when there
\* is one, else Update.
GetStateOrCreate(p) ==
    /\ pc[p] \in {"GetStateOrCreate", "List", "Generate"}
    /\ LET g == GetState(files, Req(p).ref) IN
        IF g.err
        THEN Return(p, "err", "decode")
        ELSE IF g.state = Nil
        THEN /\ pc' = [pc EXCEPT ![p] = "Update"]
             /\ UNCHANGED <<cur, local, calls>>
        ELSE UpdateReturns(p, g.state, FALSE)
    /\ UNCHANGED <<batch, eventChans, files, mock, storeVars, mutex, heap, chanVars, hist>>

\* GetCommitSHA1 answers 304 Not Modified to the SHA1 of the stored state:
\* return state, false, nil.
UpdateNotModified(p) ==
    /\ pc[p] = "GetCommitSHA1"
    /\ local[p].state # Nil
    /\ UpdateReturns(p, local[p].state, FALSE)
    /\ UNCHANGED <<batch, eventChans, files, mock, storeVars, mutex, heap, chanVars, hist>>

\* GetCommitSHA1 fails.
UpdateCommitErr(p) ==
    /\ pc[p] = "GetCommitSHA1"
    /\ Return(p, "err", "GetCommitSHA1")
    /\ UNCHANGED <<batch, eventChans, files, mock, storeVars, mutex, heap, chanVars, hist>>

\* GetCommitSHA1 returns the SHA1 of the commit of ref.
UpdateCommit(p, sha1) ==
    /\ pc[p] = "GetCommitSHA1"
    /\ local' = [local EXCEPT ![p].sha1 = sha1]
    /\ pc' = [pc EXCEPT ![p] = "download"]
    /\ UNCHANGED <<batch, eventChans, files, mock, storeVars, mutex, heap, chanVars, cur, calls, hist>>

\* download: GetArchiveLink, http.Get, gzip.NewReader or os.RemoveAll fails.
downloadErr(p) ==
    /\ pc[p] = "download"
    /\ Return(p, "err", "download")
    /\ UNCHANGED <<batch, eventChans, files, mock, storeVars, mutex, heap, chanVars, hist>>

\* download: the archive is opened and the sources of ref are removed.
downloadRemoveAll(p) ==
    /\ pc[p] = "download"
    /\ files' = RemoveAll(files, Req(p).ref)
    /\ local' = [local EXCEPT ![p].tr = Archive(local[p].sha1)]
    /\ pc' = [pc EXCEPT ![p] = "extract"]
    /\ UNCHANGED <<batch, eventChans, mock, storeVars, mutex, heap, chanVars, cur, calls, hist>>

\* download: the next entry of the archive; a regular file is written below
\* the sources of ref.
downloadExtract(p) ==
    /\ pc[p] = "extract"
    /\ local[p].tr # <<>>
    /\ LET hdr == Head(local[p].tr) IN
        files' = IF hdr.Typeflag = "reg"
                 THEN Put(files, SrcPath(Req(p).ref, hdr.Name), hdr.content)
                 ELSE files
    /\ local' = [local EXCEPT ![p].tr = Tail(@)]
    /\ UNCHANGED <<batch, eventChans, mock, storeVars, mutex, heap, chanVars, pc, cur, calls, hist>>

\* download: tr.Next, os.MkdirAll or os.OpenFile fails on the next entry, or
\* io.Copy fails after os.OpenFile created the file.
downloadExtractErr(p) ==
    /\ pc[p] = "extract"
    /\ local[p].tr # <<>>
    /\ LET hdr == Head(local[p].tr) IN
        \/ files' = files
        \/ /\ hdr.Typeflag = "reg"
           /\ files' = Put(files, SrcPath(Req(p).ref, hdr.Name), EmptyFile)
    /\ Return(p, "err", "extract")
    /\ UNCHANGED <<batch, eventChans, mock, storeVars, mutex, heap, chanVars, hist>>

\* download: io.EOF, the state of what was extracted is returned to Update.
downloadDone(p) ==
    /\ pc[p] = "extract"
    /\ local[p].tr = <<>>
    /\ local' = [local EXCEPT ![p].state =
                    [nil |-> FALSE, file |-> State(Req(p).ref, local[p].sha1)]]
    /\ pc' = [pc EXCEPT ![p] = "OpenFile"]
    /\ UNCHANGED <<batch, eventChans, files, mock, storeVars, mutex, heap, chanVars, cur, calls, hist>>

\* Update: os.MkdirAll or os.OpenFile of the state file fails.
UpdateOpenFileErr(p) ==
    /\ pc[p] = "OpenFile"
    /\ Return(p, "err", "OpenFile")
    /\ UNCHANGED <<batch, eventChans, files, mock, storeVars, mutex, heap, chanVars, hist>>

\* Update: os.OpenFile(path, O_CREATE|O_TRUNC|O_WRONLY) creates or truncates
\* the state file.
UpdateOpenFile(p) ==
    /\ pc[p] = "OpenFile"
    /\ files' = Put(files, StatePath(Req(p).ref), EmptyFile)
    /\ pc' = [pc EXCEPT ![p] = "Encode"]
    /\ UNCHANGED <<batch, eventChans, mock, storeVars, mutex, heap, chanVars, cur, local, calls, hist>>

\* Update: enc.Encode(state) fails.
UpdateEncodeErr(p) ==
    /\ pc[p] = "Encode"
    /\ Return(p, "err", "Encode")
    /\ UNCHANGED <<batch, eventChans, files, mock, storeVars, mutex, heap, chanVars, hist>>

\* Update: the state is written and returned with updated = true.
UpdateEncode(p) ==
    /\ pc[p] = "Encode"
    /\ files' = Put(files, StatePath(Req(p).ref), local[p].state.file)
    /\ UpdateReturns(p, local[p].state, TRUE)
    /\ UNCHANGED <<batch, eventChans, mock, storeVars, mutex, heap, chanVars, hist>>

\* filepath.Glob(r.path/src/ref/*/generator.json)
Glob(fs, ref) ==
    {path \in SrcFiles(fs, ref) : Len(path) = 4 /\ path[4] = DefinitionFile}

\* List and Generate: the definition files are decoded; List returns the
\* definitions (here the set of their names), Generate runs the generator of
\* the name.
RepoGlob(p) ==
    /\ pc[p] = "Glob"
    /\ LET defs == {files[path] : path \in Glob(files, Req(p).ref)} IN
        IF \E d \in defs : d.empty
        THEN Return(p, "err", "decode")
        ELSE IF Req(p).op = "List"
        THEN Return(p, "ok", {d.Name : d \in defs})
        ELSE IF \E d \in defs : d.Name = Req(p).name
        THEN Return(p, "ok", Req(p).name)
        ELSE Return(p, "err", "could not find generator")
    /\ UNCHANGED <<batch, eventChans, files, mock, storeVars, mutex, heap, chanVars, hist>>

\* One task calls the repository; the remote answers any commit, 304 or an
\* error, and any step that reads the network or writes a file can fail.
NextRepo ==
    \E p \in {"p1"} :
        \/ \E r \in RepoInputs : CallRepo(p, r)
        \/ UpdateGetState(p)
        \/ GetStateOrCreate(p)
        \/ UpdateNotModified(p)
        \/ UpdateCommitErr(p)
        \/ \E sha1 \in SHA1s : UpdateCommit(p, sha1)
        \/ downloadErr(p)
        \/ downloadRemoveAll(p)
        \/ downloadExtract(p)
        \/ downloadExtractErr(p)
        \/ downloadDone(p)
        \/ UpdateOpenFileErr(p)
        \/ UpdateOpenFile(p)
        \/ UpdateEncodeErr(p)
        \/ UpdateEncode(p)
        \/ RepoGlob(p)

SpecRepo == Init /\ [][NextRepo]_vars

\* --------------------------------------------------------------- fairness
\* The store with its sinks registered before the first call: an unbuffered
\* one, whose task stands at the receive, and a buffered one.
InitLive ==
    /\ eventChans = <<"c0", "c1">>
    /\ mock = NoMock
    /\ files = <<>>
    /\ links = <<>>
    /\ evidences = <<>>
    /\ values = <<>>
    /\ maps = <<>>
    /\ mutex = [writer |-> None, readers |-> {}]
    /\ heap = <<>>
    /\ chanBuf = [c \in Chans |-> <<>>]
    /\ recvd = [c \in Chans |-> <<>>]
    /\ pc = [p \in Procs |-> "idle"]
    /\ cur = [p \in Procs |-> 0]
    /\ local = [p \in Procs |-> NoLocal]
    /\ calls = <<>>
    /\ hist = <<>>
    /\ batch = [b \in Batches |-> NoBatch]

\* The steps of the operation the task p is in, from the lock to the return.
Handler(p) ==
    \/ Lock(p)
    \/ RLock(p)
    \/ createLinkHashErr(p)
    \/ createLinkStore(p)
    \/ createLinkMap(p)
    \/ AddEvidenceErr(p)
    \/ AddEvidenceStore(p)
    \/ SendUnbuffered(p)
    \/ SendBuffered(p)
    \/ WriteReturn(p)
    \/ GetSegment(p)

\* Two tasks create links (one whose hash fails), add an evidence (a second
\* time is an error) and get a segment; the tasks of the sinks receive and do
\* nothing else.
NextLive ==
    \/ \E p \in Procs :
        \/ \E l \in {L1, LBad} : CallCreateLink(p, l)
        \/ \E h \in EvidenceHashInputs : CallAddEvidence(p, h, E1)
        \/ \E h \in EvidenceHashInputs : CallGetSegment(p, h)
        \/ Handler(p)
    \/ \E c \in Chans : SinkRecv(c)

\* The scheduler runs every goroutine that can run: a task that can take its
\* next step takes it, and a sink whose channel holds an event receives it.
Fairness ==
    /\ \A p \in Procs : WF_vars(Handler(p))
    /\ \A c \in Chans : WF_vars(SinkRecv(c))

\* The same tasks and sinks under any scheduling: a sink may leave its
\* channel full.
SpecSinks == InitLive /\ [][NextLive]_vars

SpecLive == InitLive /\ [][NextLive]_vars /\ Fairness

\* ------------------------------------------------------------ properties
WriteCalls == {i \in 1..Len(calls) : calls[i].req.op \in {"CreateLink", "AddEvidence"}}

\* Events handed to the channel of sink c so far: taken by the sink, then buffered.
Delivered(c) == recvd[c] \o chanBuf[c]

\* How often x occurs in the sequence q.
Count(q, x) == Cardinality({i \in 1..Len(q) : q[i] = x})

\* How many events of call i are in the sequence q.
CountOf(q, i) == Cardinality({k \in 1..Len(q) : q[k].cid = i})

\* The event call i builds.
EventOf(i) ==
    IF calls[i].req.op = "CreateLink"
    THEN NewSavedLinks(i, heap[calls[i].req.link])
    ELSE NewSavedEvidences(i, calls[i].req.linkHash, calls[i].req.evidence)

InHist(i) == \E k \in 1..Len(hist) : hist[k] = i

\* C1: every link CreateLink accepted stays retrievable under its hash: after
\* any later operations GetSegment(hash(l)) yields a segment with linkHash =
\* hash(l) and link = l, and every segment a GetSegment call returned carries
\* the hash it was asked for and a link with that hash.
C1_AcceptedLinkStays ==
    /\ \A i \in 1..Len(calls) :
        (calls[i].req.op = "CreateLink" /\ InHist(i)) =>
            LET l == heap[calls[i].req.link]
                seg == getSegment(HashString(l))
            IN  /\ ~seg.nil
                /\ seg.meta.linkHash = HashString(l)
                /\ seg.link = l
    /\ \A i \in 1..Len(calls) :
        (calls[i].req.op = "GetSegment" /\ calls[i].status = "ok"
            /\ ~calls[i].result.nil) =>
            /\ calls[i].result.meta.linkHash = calls[i].req.linkHash
            /\ HashString(calls[i].result.link) = calls[i].req.linkHash

\* A GetSegment call found the first link after a second link was created.
C1_Witness ==
    /\ Len(hist) >= 2
    /\ \E i \in 1..Len(calls) :
        /\ calls[i].req.op = "GetSegment"
        /\ calls[i].status = "ok"
        /\ ~calls[i].result.nil
        /\ calls[i].result.link = L1
        /\ \E j \in 1..(i - 1) : calls[j].req.op = "CreateLink" /\ heap[calls[j].req.link] = L2
                                   /\ calls[j].status = "ok"

\* Task p is about to run the body of AddEvidence with an evidence whose
\* (backend, provider) pair the hash already holds.
DuplicateEvidence(p) ==
    /\ pc[p] = "AddEvidence"
    /\ HasPair(EvidencesOf(Req(p).linkHash), Req(p).evidence)

\* C3: AddEvidence with a (backend, provider) pair the hash already holds
\* returns an error, leaves the evidences and all other store state as they
\* were and delivers no event; no hash ever holds two evidences of one pair.
C3_DuplicateEvidenceRejected ==
    /\ [](\A h \in DOMAIN evidences :
            \A i, j \in 1..Len(evidences[h]) :
                SamePair(evidences[h][i], evidences[h][j]) => i = j)
    /\ [][\A p \in Procs :
            (DuplicateEvidence(p) /\ pc'[p] # pc[p]) =>
                /\ pc'[p] \in {"idle", "Write"}
                /\ calls'[cur[p]].status = "err"
                /\ UNCHANGED <<batch, storeVars, eventChans, chanVars, hist>>]_vars

\* A second AddEvidence of the same pair returned its error while the hash
\* holds the one evidence of the first call.
C3_Witness ==
    \E i, j \in 1..Len(calls) :
        /\ i < j
        /\ calls[i].req.op = "AddEvidence" /\ calls[i].status = "ok"
        /\ calls[j].req.op = "AddEvidence" /\ calls[j].status = "err"
        /\ SamePair(calls[i].req.evidence, calls[j].req.evidence)
        /\ EvidencesOf(calls[i].req.linkHash) = <<calls[i].req.evidence>>

\* C4: a CreateLink or AddEvidence call that returned without error has
\* delivered exactly one event, the one of that write, to every sink
\* registered when the write was made (once per entry of the sink list);
\* every event delivered is the event of a write that took effect, never of a
\* call that returned an error.
C4_OneEventPerAcceptedWrite ==
    /\ \A i \in WriteCalls :
        calls[i].status = "ok" =>
            \A c \in Chans : CountOf(Delivered(c), i) = Count(calls[i].sinks, c)
    /\ \A c \in Chans :
        \A k \in 1..Len(Delivered(c)) :
            LET e == Delivered(c)[k] IN
                /\ e.cid \in WriteCalls
                /\ InHist(e.cid)
                /\ calls[e.cid].status # "err"
                /\ e = EventOf(e.cid)
                /\ CountOf(Delivered(c), e.cid) <= Count(calls[e.cid].sinks, c)

\* A write returned after delivering to a registered sink, and another call
\* returned an error.
C4_Witness ==
    /\ \E i \in WriteCalls :
        /\ calls[i].status = "ok"
        /\ calls[i].sinks # <<>>
        /\ \A c \in Chans : CountOf(Delivered(c), i) = Count(calls[i].sinks, c)
    /\ \E j \in WriteCalls : calls[j].status = "err"

\* Position of call i in hist (0 when it did not change the store).
HistPos(i) == IndexOf(hist, i)

\* C5: every sink gets the events of the accepted writes in the order in
\* which the writes took effect on the store.
C5_EventsInWriteOrder ==
    \A c \in Chans :
        \A j, k \in 1..Len(Delivered(c)) :
            j < k => HistPos(Delivered(c)[j].cid) <= HistPos(Delivered(c)[k].cid)

\* A sink took the events of two writes made by different tasks.
C5_Witness ==
    \E c \in Chans :
        \E j, k \in 1..Len(recvd[c]) :
            /\ j < k
            /\ recvd[c][j].cid # recvd[c][k].cid
            /\ calls[recvd[c][j].cid].proc # calls[recvd[c][k].cid].proc

WriterCS == {"createLink", "createLinkMap", "send", "AddEvidence", "setValue", "deleteValue"}
ReaderCS == {"GetSegment", "FindSegments", "GetMapIDs", "GetEvidences", "GetValue"}

\* Every stored link is in the set of its map.
LinksInMaps ==
    \A h \in DOMAIN links :
        LET m == heap[links[h]].mapId IN Has(maps, m) /\ h \in maps[m]

\* C6: at most one write operation is inside its critical section, no read
\* operation is inside its critical section together with a write, and a read
\* inside its critical section never sees a link that is in the link table
\* but not in the set of its map.
C6_ReadersWriterExclusion ==
    /\ \A p, q \in Procs : (pc[p] \in WriterCS /\ pc[q] \in WriterCS) => p = q
    /\ \A p, q \in Procs : ~(pc[p] \in WriterCS /\ pc[q] \in ReaderCS)
    /\ \A p \in Procs : pc[p] \in WriterCS => mutex.writer = p
    /\ \A p \in Procs : pc[p] \in ReaderCS => (p \in mutex.readers /\ LinksInMaps)

\* A writer has put a link into the link table and not yet into its map while
\* a reader waits for the lock.
C6_Witness ==
    \E p, q \in Procs :
        /\ pc[p] = "createLinkMap"
        /\ ~LinksInMaps
        /\ pc[q] = "RLock"

\* The next step of task p evaluates the range expression of the loop over
\* the sinks: it reads a.eventChans.
ReadsSinkList(p) == pc[p] \in {"createLinkMap", "AddEvidence"}

\* C7: the sink list is accessed only under the store's lock; in particular
\* a task about to assign a.eventChans in AddStoreEventChannel holds the
\* lock, or at least no CreateLink or AddEvidence of another task is about to
\* read the list for its loop over the sinks.
C7_SinkListUnderLock ==
    \A p \in Procs :
        pc[p] = "AddStoreEventChannelWrite" =>
            \/ mutex.writer = p
            \/ \A q \in Procs \ {p} : ~ReadsSinkList(q)

IsPrefix(q, r) == Len(q) <= Len(r) /\ SubSeq(r, 1, Len(q)) = q

\* C8: a write delivers its event to the sinks one after another in
\* registration order (when it sends to entry k of the list, the entries
\* before k have the event), and no sink is ever removed from the list.
C8_RegistrationOrderNoRemoval ==
    /\ [](\A p \in Procs :
            pc[p] = "send" =>
                \A c \in Chans :
                    CountOf(Delivered(c), cur[p])
                        = Count(SubSeq(local[p].snap, 1, local[p].idx - 1), c))
    /\ [][IsPrefix(eventChans, eventChans')]_vars

\* C9 as stated: a write that returned has had its event taken by every sink
\* registered at the time of the write.
C9_ReturnedMeansReceived ==
    \A i \in WriteCalls :
        calls[i].status = "ok" =>
            \A c \in Chans : CountOf(recvd[c], i) = Count(calls[i].sinks, c)

\* C9, amended: a write that returned has sent its event on the channel of
\* every sink registered at the time of the write, and a sink with an
\* unbuffered channel has taken it; while the writer has not sent to every
\* sink it has not returned and holds the lock.
C9_ReturnedMeansSent ==
    /\ \A i \in WriteCalls :
        calls[i].status = "ok" =>
            \A c \in Chans :
                /\ CountOf(Delivered(c), i) = Count(calls[i].sinks, c)
                /\ ChanCap(c) = 0 => CountOf(recvd[c], i) = Count(calls[i].sinks, c)
    /\ \A p \in Procs :
        (pc[p] = "send" /\ local[p].idx <= Len(local[p].snap)) =>
            /\ calls[cur[p]].status = "pending"
            /\ mutex.writer = p

\* A write returned after sending to an unbuffered and to a buffered sink,
\* and the buffered sink has not taken the event.
C9_Witness ==
    \E i \in WriteCalls :
        /\ calls[i].status = "ok"
        /\ Count(calls[i].sinks, "c0") > 0
        /\ CountOf(recvd["c0"], i) > 0
        /\ CountOf(chanBuf["c1"], i) > 0

\* C2: the key of every entry of the link table is the hash of the link
\* stored under it, whatever callers do with the link objects they hold.
C2_KeyIsHashOfStoredLink ==
    \A h \in DOMAIN links : HashString(heap[links[h]]) = h

\* A step in which a batch takes a staged operation.
StagingStep == \E b \in Batches : Len(batch'[b].ops) > Len(batch[b].ops)

\* C10: staging an operation in a batch leaves the tables, the sink list and
\* the channels of the base as they are, and the base runs a call for a
\* batch only once the Write() of that batch was called.
C10_StagingLeavesBase ==
    /\ [][StagingStep => UNCHANGED <<storeVars, eventChans, chanVars, hist, calls, mutex>>]_vars
    /\ [](\A i \in 1..Len(calls) :
            calls[i].via # "client" => batch[calls[i].via].state # "open")

\* A batch holds two staged operations, one of them a CreateLink, its Write()
\* was not called, the base holds no link and a GetSegment on the base found
\* none.
C10_Witness ==
    \E b \in Batches :
        /\ batch[b].state = "open"
        /\ Len(batch[b].ops) = 2
        /\ \E k \in 1..2 : batch[b].ops[k].op = "CreateLink"
        /\ \E i \in 1..Len(calls) :
            /\ calls[i].req.op = "GetSegment"
            /\ calls[i].status = "ok"
            /\ calls[i].result.nil
        /\ links = <<>>

\* C11: read-your-writes overlay: the answer of a batch to a query
\* (GetSegment, GetEvidences, FindSegments, GetMapIDs, GetValue) is the answer
\* of a store that holds the base's current content and the batch's staged
\* operations.
C11_OverlayEqualsMergedStore ==
    \A b \in Batches :
        batch[b].read.req.op # "none" => batch[b].read.result = batch[b].read.expect

\* The operations issued on batch b that b holds.
OwnOps(b) == SelectSeq(batch[b].ops, LAMBDA o : o.by = b)

\* The hashes of the links created through batch b.
OwnHashes(b) ==
    {HashString(heap[OwnOps(b)[i].link]) :
        i \in {k \in 1..Len(OwnOps(b)) : OwnOps(b)[k].op = "CreateLink"}}

\* The map ids of the links created through batch b.
OwnMapIDs(b) ==
    {heap[OwnOps(b)[i].link].mapId :
        i \in {k \in 1..Len(OwnOps(b)) : OwnOps(b)[k].op = "CreateLink"}}

\* Everything in the last answer of batch b is in the base or was staged
\* through b itself.
OwnOrBase(b) ==
    LET q == batch[b].read.req
        r == batch[b].read.result
    IN  CASE q.op = "GetSegment" ->
                r.nil \/ r.meta.linkHash \in DOMAIN links \cup OwnHashes(b)
          [] q.op = "FindSegments" ->
                \A i \in 1..Len(r) : r[i].meta.linkHash \in DOMAIN links \cup OwnHashes(b)
          [] q.op = "GetMapIDs" ->
                \A i \in 1..Len(r) : r[i] \in DOMAIN maps \cup OwnMapIDs(b)
          [] q.op = "GetEvidences" ->
                \A i \in 1..Len(r) :
                    \/ \E k \in 1..Len(EvidencesOf(q.linkHash)) :
                          EvidencesOf(q.linkHash)[k] = r[i]
                    \/ \E k \in 1..Len(OwnOps(b)) :
                          /\ OwnOps(b)[k].op = "AddEvidence"
                          /\ OwnOps(b)[k].linkHash = q.linkHash
                          /\ OwnOps(b)[k].evidence = r[i]
          [] q.op = "GetValue" ->
                \/ r.nil
                \/ Has(values, createKey(q.key)) /\ values[createKey(q.key)] = r.value
                \/ \E k \in 1..Len(OwnOps(b)) :
                      /\ OwnOps(b)[k].op = "SetValue"
                      /\ OwnOps(b)[k].key = q.key
                      /\ OwnOps(b)[k].value = r.value
          [] OTHER -> TRUE

\* C13: two batches open over the same base are independent: whatever a query
\* of a batch answers is in the base or was staged through that batch; an
\* operation staged in the other batch and not written is never in the answer.
C13_BatchesIndependent ==
    [][\A b \in Batches : batch'[b].read # batch[b].read => OwnOrBase(b)']_vars

\* Batch b1 holds a staged link that is not in the base, and b2, open at the
\* same time, was asked for it and answered nil.
C13_Witness ==
    /\ batch["b1"].state = "open"
    /\ batch["b2"].state = "open"
    /\ OwnHashes("b1") \ DOMAIN links # {}
    /\ batch["b2"].read.req.op = "GetSegment"
    /\ batch["b2"].read.req.linkHash \in OwnHashes("b1") \ DOMAIN links
    /\ batch["b2"].read.result.nil

\* The calls the Write() of batch b made on the base, in the order made.
ReplaysOf(b) ==
    SelectSeq([i \in 1..Len(calls) |-> i], LAMBDA i : calls[i].via = b)

\* The store holds what the replayed call i put there.
Applied(i) ==
    CASE calls[i].req.op = "CreateLink" ->
            Has(links, HashString(heap[calls[i].req.link]))
      [] calls[i].req.op = "AddEvidence" ->
            \E k \in 1..Len(EvidencesOf(calls[i].req.linkHash)) :
                EvidencesOf(calls[i].req.linkHash)[k] = calls[i].req.evidence
      [] calls[i].req.op = "SetValue" -> InHist(i)
      [] OTHER -> TRUE

\* C12: Write() replays the staged operations on the base in the order they
\* were issued; when a replay fails Write() returns that error, no later
\* staged operation is applied, and what was applied before stays applied.
C12_WriteReplaysInOrder ==
    /\ [](\A b \in Batches :
            LET R == ReplaysOf(b) IN
            /\ Len(R) <= Len(batch[b].ops)
            /\ \A k \in 1..Len(R) : calls[R[k]].req = batch[b].ops[k]
            /\ \A k \in 1..Len(R) - 1 : calls[R[k]].status = "ok" /\ Applied(R[k])
            /\ \A j, k \in 1..Len(R) :
                  (j < k /\ InHist(R[j]) /\ InHist(R[k])) => HistPos(R[j]) < HistPos(R[k])
            /\ batch[b].state = "written" =>
                  /\ Len(R) = Len(batch[b].ops)
                  /\ \A k \in 1..Len(R) : calls[R[k]].status = "ok"
                  /\ calls[batch[b].wcall].status = "ok"
            /\ batch[b].state = "failed" =>
                  /\ Len(R) >= 1
                  /\ calls[R[Len(R)]].status = "err"
                  /\ calls[batch[b].wcall].status = "err")
    /\ [][\A b \in Batches :
            (batch[b].state = "writing" /\ batch'[b].state = "failed")
                => UNCHANGED storeVars]_vars

\* A Write() failed at its second operation: the first one, a SetValue, is in
\* the base, and Write() returned the error.
C12_Witness ==
    \E b \in Batches :
        /\ batch[b].state = "failed"
        /\ Len(batch[b].ops) = 2
        /\ batch[b].ops[1].op = "SetValue"
        /\ Len(ReplaysOf(b)) = 2
        /\ calls[ReplaysOf(b)[1]].status = "ok"
        /\ calls[ReplaysOf(b)[2]].status = "err"
        /\ Has(values, createKey(batch[b].ops[1].key))
        /\ calls[batch[b].wcall].status = "err"

\* The events of the calls of batch b among those handed to sink c.
EventsOf(b, c) == SelectSeq(Delivered(c), LAMBDA e : calls[e.cid].via = b)

\* C14: a commit gives the sinks of the base one event per replayed staged
\* write, in stage order, each the event the base builds for that one write
\* (no event for the batch as a whole), and staging gives them none.
C14_CommitEventsPerReplay ==
    /\ [](\A b \in Batches, c \in Chans :
            LET E == EventsOf(b, c) IN
            /\ \A k \in 1..Len(E) :
                  /\ calls[E[k].cid].req.op \in {"CreateLink", "AddEvidence"}
                  /\ E[k] = EventOf(E[k].cid)
            /\ \A j, k \in 1..Len(E) : j < k => E[j].cid <= E[k].cid
            /\ \A k \in 1..Len(ReplaysOf(b)) :
                  LET i == ReplaysOf(b)[k] IN
                  (calls[i].status = "ok" /\ calls[i].req.op \in {"CreateLink", "AddEvidence"})
                      => CountOf(Delivered(c), i) = Count(calls[i].sinks, c)
            /\ \A k \in 1..Len(ReplaysOf(b)) :
                  LET i == ReplaysOf(b)[k] IN
                  (calls[i].status = "err" \/ calls[i].req.op \notin {"CreateLink", "AddEvidence"})
                      => CountOf(Delivered(c), i) = 0)
    /\ [][StagingStep => UNCHANGED chanVars]_vars

\* A batch with a staged CreateLink and a staged AddEvidence was written
\* while a sink was registered: the sink got the SavedLinks event, then the
\* SavedEvidences event.
C14_Witness ==
    \E b \in Batches, c \in Chans :
        /\ batch[b].state = "written"
        /\ Len(batch[b].ops) = 2
        /\ batch[b].ops[1].op = "CreateLink"
        /\ batch[b].ops[2].op = "AddEvidence"
        /\ Len(EventsOf(b, c)) = 2
        /\ EventsOf(b, c)[1].kind = "SavedLinks"
        /\ EventsOf(b, c)[2].kind = "SavedEvidences"

\* The stored segments that satisfy every set field of the filter: mapIds
\* (empty: no restriction), process, prevLinkHash (NoHash: roots only), tags
\* (all of them) and linkHashes.
Satisfying(filter) ==
    {seg \in {getSegment(h) : h \in DOMAIN links} :
        /\ (filter.mapIDs # <<>> => \E i \in 1..Len(filter.mapIDs) :
                                        seg.link.mapId = filter.mapIDs[i])
        /\ (filter.process # "" => seg.link.process = filter.process)
        /\ (filter.prevLinkHash.set => seg.link.prevLinkHash = filter.prevLinkHash.val)
        /\ (\A i \in 1..Len(filter.tags) :
                \E k \in 1..Len(seg.link.tags) : seg.link.tags[k] = filter.tags[i])
        /\ (filter.linkHashes # <<>> => \E i \in 1..Len(filter.linkHashes) :
                                            seg.meta.linkHash = filter.linkHashes[i])}

\* Task p returns from FindSegments in this step.
FindSegmentsReturns(p) == pc[p] = "FindSegments" /\ pc'[p] = "idle"

\* C15: FindSegments returns exactly the stored segments that satisfy every
\* set field of the filter, whether it scans all links or the listed maps
\* (the page of the filters used holds them all).
C15_FindSegmentsAllMatching ==
    [][\A p \in Procs :
        FindSegmentsReturns(p) =>
            /\ Range(calls'[cur[p]].result) = Satisfying(Req(p).filter)
            /\ Len(calls'[cur[p]].result) = Cardinality(Satisfying(Req(p).filter))]_vars

\* The store holds a root of map m2 and other links, in map m2 or roots, and
\* a FindSegments for the roots of m2, which scans all links, returned that
\* root alone.
C15_Witness ==
    \E i \in 1..Len(calls) :
        /\ calls[i].req.op = "FindSegments"
        /\ calls[i].status = "ok"
        /\ calls[i].req.filter.mapIDs = <<"m2">>
        /\ calls[i].req.filter.prevLinkHash.set
        /\ Len(calls[i].result) = 1
        /\ Cardinality(DOMAIN links) = 3

\* Segment a comes before segment b: a has the higher priority, or a has a
\* priority and b has none, or they agree on the priority and a has the
\* smaller link hash.
ComesBefore(a, b) ==
    LET pa == a.link.priority
        pb == b.link.priority
    IN  IF pa # <<>> /\ pb # <<>> /\ pa[1] # pb[1] THEN pa[1] > pb[1]
        ELSE IF (pa = <<>>) # (pb = <<>>) THEN pa # <<>>
        ELSE UnHex(a.meta.linkHash) < UnHex(b.meta.linkHash)

StoredSegments == {getSegment(h) : h \in DOMAIN links}

\* C16: the segments FindSegments returns are ordered by priority descending,
\* then link hash ascending, those without a priority last, and of two
\* distinct stored segments the order always puts exactly one first.
C16_FindSegmentsOrdered ==
    [][\A p \in Procs :
        FindSegmentsReturns(p) =>
            /\ \A i, j \in 1..Len(calls'[cur[p]].result) :
                    i < j => ComesBefore(calls'[cur[p]].result[i], calls'[cur[p]].result[j])
            /\ \A a, b \in StoredSegments :
                    a # b => (Less(a, b) # Less(b, a))]_vars

\* A FindSegments returned three segments: two of the same priority, then one
\* without a priority, from a store where the last was created first.
C16_Witness ==
    \E i \in 1..Len(calls) :
        /\ calls[i].req.op = "FindSegments"
        /\ calls[i].status = "ok"
        /\ Len(calls[i].result) = 3
        /\ calls[i].result[1].link.priority = calls[i].result[2].link.priority
        /\ calls[i].result[1].link.priority # <<>>
        /\ calls[i].result[3].link.priority = <<>>
        /\ heap[1].priority = <<>>

\* The stored segments that match the filter, in the order of C16.
SortedMatching(filter) ==
    CHOOSE q \in Orders(Satisfying(filter)) :
        \A i, j \in 1..Len(q) : i < j => ComesBefore(q[i], q[j])

\* The map ids with a stored link of the process of the filter (any process
\* when it is unset), in ascending order.
MatchingMaps(filter) ==
    {m \in Range(MapIDList) :
        \E h \in DOMAIN links :
            /\ heap[links[h]].mapId = m
            /\ (filter.process # "" => heap[links[h]].process = filter.process)}

SortedMaps(filter) == SelectSeq(MapIDList, LAMBDA m : m \in MatchingMaps(filter))

\* q[offset : offset+limit], cut at the end of q.
Slice(q, pagination) ==
    LET n == IF pagination.offset >= Len(q) THEN 0
             ELSE IF pagination.limit <= Len(q) - pagination.offset THEN pagination.limit
             ELSE Len(q) - pagination.offset
    IN  [i \in 1..n |-> q[pagination.offset + i]]

\* Task p returns from GetMapIDs in this step.
GetMapIDsReturns(p) == pc[p] = "GetMapIDs" /\ pc'[p] = "idle"

\* The full sorted list a query of task p pages through.
SortedOf(p) ==
    IF Req(p).op = "FindSegments" THEN SortedMatching(Req(p).filter)
    ELSE SortedMaps(Req(p).filter)

\* C17: FindSegments and GetMapIDs return sorted[offset : offset+limit] cut at
\* the bounds of the sorted list, without error: never more than limit
\* elements, none when limit is 0, none when offset is at or past the end.
C17_PaginationSlicesSorted ==
    [][\A p \in Procs :
        FindSegmentsReturns(p) \/ GetMapIDsReturns(p) =>
            LET pg == Req(p).filter.pagination
                res == calls'[cur[p]].result
            IN  /\ calls'[cur[p]].status = "ok"
                /\ res = Slice(SortedOf(p), pg)
                /\ Len(res) <= pg.limit
                /\ pg.limit = 0 => res = <<>>
                /\ pg.offset >= Len(SortedOf(p)) => res = <<>>]_vars

\* Of three stored links, the page of two at offset 2 held the last segment
\* alone, the page of limit 0 was empty, and a page of map ids at offset 1
\* held one id.
C17_Witness ==
    /\ Cardinality(DOMAIN links) = 3
    /\ \E i \in 1..Len(calls) :
        /\ calls[i].req.op = "FindSegments"
        /\ calls[i].status = "ok"
        /\ calls[i].req.filter.pagination = Pagination(2, 2)
        /\ Len(calls[i].result) = 1
    /\ \E i \in 1..Len(calls) :
        /\ calls[i].req.op = "FindSegments"
        /\ calls[i].status = "ok"
        /\ calls[i].req.filter.pagination = Pagination(0, 0)
        /\ calls[i].result = <<>>
    /\ \E i \in 1..Len(calls) :
        /\ calls[i].req.op = "GetMapIDs"
        /\ calls[i].status = "ok"
        /\ calls[i].req.filter.pagination = Pagination(1, 1)
        /\ Len(calls[i].result) = 1

\* What the query of call c matches in the store.
MatchingOf(c) ==
    IF calls[c].req.op = "FindSegments" THEN Satisfying(calls[c].req.filter)
    ELSE MatchingMaps(calls[c].req.filter)

NoDuplicates(q) == \A i, j \in 1..Len(q) : i # j => q[i] # q[j]

\* The completed calls that ask for one of the pages at offsets 0, k, 2k, ...
\* with limit k > 0.
PagedCalls ==
    {i \in 1..Len(calls) :
        /\ calls[i].status = "ok"
        /\ calls[i].req.op \in {"FindSegments", "GetMapIDs"}
        /\ calls[i].req.filter.pagination.limit > 0
        /\ calls[i].req.filter.pagination.offset % calls[i].req.filter.pagination.limit = 0}

\* Calls i and j page through the same query with the same limit.
SamePaging(i, j) ==
    /\ calls[i].req.op = calls[j].req.op
    /\ calls[i].req.filter.pagination.limit = calls[j].req.filter.pagination.limit
    /\ [calls[i].req.filter EXCEPT !.pagination = calls[j].req.filter.pagination]
           = calls[j].req.filter

\* The pages of the query of call c up to its own.
PagesUpTo(c) ==
    {i \in PagedCalls :
        /\ SamePaging(i, c)
        /\ calls[i].req.filter.pagination.offset <= calls[c].req.filter.pagination.offset}

\* C18: on a store no call modifies, the pages at offsets 0, k, 2k, ... of a
\* FindSegments or GetMapIDs query hold no result twice, on one page or on
\* two, and pages 0..n that reach the number of matching results hold every
\* one of them.
C18_PagesPartitionResults ==
    \A c \in PagedCalls :
        LET pg == calls[c].req.filter.pagination IN
        /\ NoDuplicates(calls[c].result)
        /\ \A i \in PagesUpTo(c) :
              calls[i].req.filter.pagination.offset # pg.offset
              => Range(calls[i].result) \cap Range(calls[c].result) = {}
        /\ /\ {calls[i].req.filter.pagination.offset : i \in PagesUpTo(c)}
                  = {m * pg.limit : m \in 0..(pg.offset \div pg.limit)}
           /\ pg.offset + pg.limit >= Cardinality(MatchingOf(c))
           => UNION {Range(calls[i].result) : i \in PagesUpTo(c)} = MatchingOf(c)

\* Of three stored links the pages of two at offsets 0 and 2 were read, two
\* segments and one, and so were both pages of one of the two map ids.
C18_Witness ==
    /\ Cardinality(DOMAIN links) = 3
    /\ \E i, j \in 1..Len(calls) :
        /\ calls[i].req.op = "FindSegments" /\ calls[j].req.op = "FindSegments"
        /\ calls[i].status = "ok" /\ calls[j].status = "ok"
        /\ calls[i].req.filter.pagination = Pagination(0, 2)
        /\ calls[j].req.filter.pagination = Pagination(2, 2)
        /\ Len(calls[i].result) = 2
        /\ Len(calls[j].result) = 1

\* What a list of segments holds: the links and their meta, without the
\* identity of the stored objects.
Content(r) == [i \in 1..Len(r) |-> [link |-> r[i].link, meta |-> r[i].meta]]

\* The links the store holds, whatever the order they were created in.
StoredLinks == {heap[links[h]] : h \in DOMAIN links}

\* The answer to the filter as the set of stored links determines it: the
\* links the filter matches, each with its hash, in the order of C16, paged.
AnswerOf(S, filter) ==
    LET segs == {[link |-> l, meta |-> [linkHash |-> HashString(l), evidences |-> <<>>]] :
                    l \in {x \in S : MatchLink(filter, x)}}
        sorted == CHOOSE q \in Orders(segs) :
                      \A i, j \in 1..Len(q) : i < j => ComesBefore(q[i], q[j])
    IN  Slice(sorted, filter.pagination)

\* C19: whatever the order in which its range over the hashes visits them, a
\* FindSegments returns what every earlier FindSegments with the same filter
\* returned on the unchanged store, and a list that the set of stored links
\* determines, whatever the order they were created in.
C19_FindSegmentsDeterministic ==
    [][\A p \in Procs :
        FindSegmentsReturns(p) =>
            LET f == Req(p).filter
                res == calls'[cur[p]].result
            IN  /\ \A i \in 1..Len(calls) :
                      /\ calls[i].status = "ok"
                      /\ calls[i].req = Req(p)
                      => calls[i].result = res
                /\ Content(res) = AnswerOf(StoredLinks, f)]_vars

\* The same page of two was asked for twice of a store of three links, two
\* of them of the same priority, the one created last returned first.
C19_Witness ==
    \E i, j \in 1..Len(calls) :
        /\ i < j
        /\ calls[i].req.op = "FindSegments"
        /\ calls[j].req = calls[i].req
        /\ calls[i].status = "ok" /\ calls[j].status = "ok"
        /\ calls[i].req.filter.pagination = Pagination(1, 2)
        /\ Len(calls[j].result) = 2
        /\ calls[j].result[1].link.priority = calls[j].result[2].link.priority
        /\ calls[j].result[1].ref = 3

\* C20: GetMapIDs returns map ids in ascending order, none twice, each with
\* a stored link of the process of the filter (any link when the process is
\* unset), and they are the page of the sorted list of all such map ids.
C20_GetMapIDsSortedMatching ==
    [][\A p \in Procs :
        GetMapIDsReturns(p) =>
            LET f == Req(p).filter
                res == calls'[cur[p]].result
            IN  /\ calls'[cur[p]].status = "ok"
                /\ \A i, j \in 1..Len(res) :
                      i < j => IndexOf(MapIDList, res[i]) < IndexOf(MapIDList, res[j])
                /\ Range(res) \subseteq MatchingMaps(f)
                /\ res = Slice(SortedMaps(f), f.pagination)]_vars

\* Map m1 holds two links of process p and map m2 one link of process q, and
\* GetMapIDs for process p returned m1, once, and not m2.
C20_Witness ==
    /\ StoredLinks = {L1, L3, L2}
    /\ \E i \in 1..Len(calls) :
        /\ calls[i].req.op = "GetMapIDs"
        /\ calls[i].status = "ok"
        /\ calls[i].req.filter = MapFilter("p", Pagination(0, 2))
        /\ calls[i].result = <<"m1">>

\* The link table by content: the link each hash is the key of.
LinkContent == [h \in DOMAIN links |-> heap[links[h]]]

\* Task p is inside a CreateLink whose link has the content of a link an
\* earlier CreateLink stored.
DuplicateCreate(p) ==
    /\ pc[p] \in {"createLink", "createLinkMap", "send"}
    /\ Req(p).op = "CreateLink"
    /\ \E i \in 1..(cur[p] - 1) :
        /\ calls[i].req.op = "CreateLink"
        /\ calls[i].status = "ok"
        /\ heap[calls[i].req.link] = heap[Req(p).link]

\* C21: a CreateLink with the content of a link stored before changes, at no
\* step, the link table (by content), the map index or the evidences, and
\* returns without error the hash the first call returned.
C21_DuplicateCreateLinkNoOp ==
    [][\A p \in Procs :
        DuplicateCreate(p) =>
            /\ LinkContent' = LinkContent
            /\ maps' = maps
            /\ evidences' = evidences
            /\ pc'[p] = "idle" =>
                  /\ calls'[cur[p]].status = "ok"
                  /\ \A i \in 1..(cur[p] - 1) :
                        /\ calls[i].req.op = "CreateLink"
                        /\ calls[i].status = "ok"
                        /\ heap[calls[i].req.link] = heap[Req(p).link]
                        => calls'[cur[p]].result = calls[i].result]_vars

\* A link was created and a second CreateLink with the same content, in
\* another object, returned the same hash while another link was stored too;
\* the table holds the pointer of the second call.
C21_Witness ==
    \E i, j \in 1..Len(calls) :
        /\ i < j
        /\ calls[i].req.op = "CreateLink" /\ calls[j].req.op = "CreateLink"
        /\ calls[i].status = "ok" /\ calls[j].status = "ok"
        /\ calls[i].req.link # calls[j].req.link
        /\ heap[calls[i].req.link] = heap[calls[j].req.link]
        /\ calls[j].result = calls[i].result
        /\ links[calls[j].result] = calls[j].req.link
        /\ Cardinality(DOMAIN links) = 2

\* The calls that changed the store so far.
AppliedOps(ops) == {hist[n] : n \in {k \in 1..Len(hist) : calls[hist[k]].req.op \in ops}}

\* No CreateLink stored a link of hash h.
NeverCreated(h) ==
    \A i \in AppliedOps({"CreateLink"}) : HashString(heap[calls[i].req.link]) # h

\* No AddEvidence stored an evidence for hash h.
NoEvidenceAdded(h) ==
    \A i \in AppliedOps({"AddEvidence"}) : calls[i].req.linkHash # h

\* The last SetValue or DeleteValue that changed key k, 0 when there is none.
LastKeyWrite(k) ==
    LET W == {n \in 1..Len(hist) :
                 /\ calls[hist[n]].req.op \in {"SetValue", "DeleteValue"}
                 /\ calls[hist[n]].req.key = k}
    IN  IF W = {} THEN 0 ELSE hist[CHOOSE n \in W : \A m \in W : m <= n]

\* Key k is unset: never set, or deleted since.
KeyUnset(k) == LastKeyWrite(k) = 0 \/ calls[LastKeyWrite(k)].req.op = "DeleteValue"

\* Task p returns from a query for something the store does not hold.
NotFoundReturn(p) ==
    /\ pc'[p] = "idle"
    /\ \/ pc[p] = "GetSegment" /\ NeverCreated(Req(p).linkHash)
       \/ pc[p] = "GetEvidences" /\ NoEvidenceAdded(Req(p).linkHash)
       \/ pc[p] = "GetValue" /\ KeyUnset(Req(p).key)
       \/ pc[p] = "deleteValue" /\ KeyUnset(Req(p).key)

\* C22: GetSegment for a hash never created, GetEvidences for a hash without
\* evidences, GetValue and DeleteValue for an unset key return nil and no
\* error, and change nothing in the store.
C22_NotFoundIsNil ==
    [][\A p \in Procs :
        NotFoundReturn(p) =>
            /\ calls'[cur[p]].status = "ok"
            /\ calls'[cur[p]].result = [nil |-> TRUE]
            /\ UNCHANGED <<links, evidences, values, maps, eventChans, chanBuf, recvd, hist>>]_vars

\* GetSegment, GetEvidences and DeleteValue each returned nil for something
\* the store did not hold.
C22_Witness ==
    \A op \in {"GetSegment", "GetEvidences", "DeleteValue"} :
        \E i \in 1..Len(calls) :
            /\ calls[i].req.op = op
            /\ calls[i].status = "ok"
            /\ calls[i].result = [nil |-> TRUE]

\* No CreateLink is between its write of a.links and its write of a.maps
\* (it holds the exclusive lock from the one to the other).
NoCreateLinkHalfway == \A p \in Procs : pc[p] # "createLinkMap"

\* The map index agrees with the link table: the set of each map is not
\* empty and holds the hashes of the stored links of that map, and every
\* stored link is in the set of its map.
IndexConsistent ==
    /\ \A m \in DOMAIN maps :
        /\ maps[m] # {}
        /\ maps[m] = {h \in DOMAIN links : heap[links[h]].mapId = m}
    /\ \A h \in DOMAIN links :
        {m \in DOMAIN maps : h \in maps[m]} = {heap[links[h]].mapId}

\* The map ids of the links CreateLink stored so far.
CreatedMaps == {heap[calls[i].req.link].mapId : i \in AppliedOps({"CreateLink"})}

EvidencesIn(evs, h) == IF Has(evs, h) THEN evs[h] ELSE <<>>

\* List q is list r, or r with one element added at its end.
SameOrOneMore(r, q) ==
    \/ q = r
    \/ Len(q) = Len(r) + 1 /\ SubSeq(q, 1, Len(r)) = r

\* C24: across every step the evidence list of every hash stays the same or
\* gets one evidence at its end; none is removed, replaced or moved.
C24_EvidencesAppendOnly ==
    [][\A h \in DOMAIN evidences \cup DOMAIN evidences' :
        SameOrOneMore(EvidencesIn(evidences, h), EvidencesIn(evidences', h))]_vars

\* A hash holds two evidences, the second added after an evidence of the
\* pair of the first was refused.
C24_Witness ==
    /\ EvidencesOf(HashString(L1)) = <<E1, E3>>
    /\ \E i \in 1..Len(calls) :
        /\ calls[i].req.op = "AddEvidence"
        /\ calls[i].req.evidence = E2
        /\ calls[i].status = "err"

\* The completed calls that built a query.
QueryCalls ==
    {i \in 1..Len(calls) :
        calls[i].req.op \in {"NewSegmentQuery", "NewMapQuery"} /\ calls[i].status = "ok"}

\* C25: the query built from a filter has a limit, the limit of the filter,
\* and asks to skip the offset of the filter (a query without skip skips
\* nothing).
C25_QueryCarriesPagination ==
    \A i \in QueryCalls :
        LET q == calls[i].result
            pg == calls[i].req.filter.pagination
        IN  /\ Has(q, "limit")
            /\ q["limit"] = pg.limit
            /\ (IF Has(q, "skip") THEN q["skip"] ELSE 0) = pg.offset

\* The completed calls of NewSegmentQuery.
SegmentQueryCalls == {i \in QueryCalls : calls[i].req.op = "NewSegmentQuery"}

\* C26: every selector NewSegmentQuery writes has docType "link"; it has no
\* constraint on prevLinkHash for a nil filter field, exactly {$exists: false}
\* for a pointer to the empty string and exactly {$eq: value} for a value.
C26_PrevLinkHashThreeWays ==
    \A i \in SegmentQueryCalls :
        LET sel == calls[i].result["selector"]
            prev == calls[i].req.filter.prevLinkHash
        IN  /\ Has(sel, "docType") /\ sel["docType"] = "link"
            /\ ~prev.set => ~Has(sel, "link.meta.prevLinkHash")
            /\ prev.set /\ prev.val = NoHash =>
                  /\ Has(sel, "link.meta.prevLinkHash")
                  /\ DOMAIN sel["link.meta.prevLinkHash"] = {"$exists"}
                  /\ sel["link.meta.prevLinkHash"]["$exists"] = FALSE
            /\ prev.set /\ prev.val # NoHash =>
                  /\ Has(sel, "link.meta.prevLinkHash")
                  /\ DOMAIN sel["link.meta.prevLinkHash"] = {"$eq"}
                  /\ sel["link.meta.prevLinkHash"]["$eq"] = prev.val

\* Queries were built from a filter without prevLinkHash, from one for the
\* roots and from one for the children of a link.
C26_Witness ==
    \A prev \in {NilPrev, Prev(NoHash), Prev(HashString(L1))} :
        \E i \in SegmentQueryCalls : calls[i].req.filter.prevLinkHash = prev

\* What key k holds by the history of the writes: the value of the latest
\* SetValue of k when no DeleteValue of k followed it, else nil.
ValueByHistory(k) ==
    IF KeyUnset(k) THEN [nil |-> TRUE]
    ELSE [nil |-> FALSE, value |-> calls[LastKeyWrite(k)].req.value]

\* C27: GetValue returns the value of the latest SetValue of the key that no
\* DeleteValue of it followed, else nil, and DeleteValue returns the value it
\* removes; SetValue and DeleteValue leave links, maps and evidences as they
\* are and hand no event to a sink; CreateLink and AddEvidence leave the
\* values as they are.
C27_KeyValueFlatMap ==
    [][\A p \in Procs :
        /\ pc[p] \in {"GetValue", "deleteValue"} /\ pc'[p] = "idle" =>
              /\ calls'[cur[p]].status = "ok"
              /\ calls'[cur[p]].result = ValueByHistory(Req(p).key)
        /\ pc[p] \in {"setValue", "deleteValue"} =>
              /\ UNCHANGED <<links, maps, evidences>>
              /\ \A c \in Chans : Delivered(c)' = Delivered(c)
        /\ pc[p] \in {"createLink", "createLinkMap", "AddEvidence", "send"} =>
              values' = values]_vars

\* A key was set twice and GetValue returned its second value.
C27_Witness ==
    /\ DOMAIN values = {createKey(<<10>>)}
    /\ \E i, j, k \in 1..Len(calls) :
        /\ i < j /\ j < k
        /\ calls[i].req = [op |-> "SetValue", key |-> <<10>>, value |-> "v"]
        /\ calls[j].req = [op |-> "SetValue", key |-> <<10>>, value |-> "w"]
        /\ calls[k].req = [op |-> "GetValue", key |-> <<10>>]
        /\ calls[k].status = "ok"
        /\ calls[k].result = [nil |-> FALSE, value |-> "w"]

\* The writer is inside a write, holding the lock, and the task of sink c
\* has called a locking operation and waits for the lock.
CalledBackDuringWrite(c) ==
    /\ mutex.writer = Writer
    /\ pc[Writer] \in {"createLink", "createLinkMap", "send"}
    /\ c \in Range(eventChans)
    /\ pc[SinkTask] \in {"RLock", "Lock"}

\* C28 as stated: once the task of a sink has called a locking operation
\* while a write whose event it has not received is in progress, the writer
\* never gets past its send and the sink never gets the lock.
C28_CallbackDeadlocks ==
    [][\A c \in Chans :
        LET Stuck == CalledBackDuringWrite(c) /\ CountOf(recvd[c], cur[Writer]) = 0
        IN  Stuck => Stuck']_vars

\* C28, amended: the same when the channel of the sink cannot take the event
\* of the write, being unbuffered or full.
C28_CallbackDeadlocksWhenFull ==
    [][\A c \in Chans :
        LET Stuck == /\ CalledBackDuringWrite(c)
                     /\ CountOf(Delivered(c), cur[Writer]) = 0
                     /\ Len(chanBuf[c]) >= ChanCap(c)
        IN  Stuck => Stuck']_vars

\* The writer is blocked at its send to the buffered sink, whose buffer is
\* full, and the task of the sink waits for the lock.
C28_Witness ==
    /\ CalledBackDuringWrite("c1")
    /\ pc[Writer] = "send"
    /\ CountOf(Delivered("c1"), cur[Writer]) = 0
    /\ Len(chanBuf["c1"]) = ChanCap("c1")

\* C29: a CreateMap with a reference that is neither a segment nor a
\* (process, linkHash) pair returns the error "missing segment or (process
\* and linkHash)" and no segment, creates no link and sends no event.
C29_BadRefsRejected ==
    [][\A p \in Procs :
        /\ pc[p] = "CreateMap"
        /\ pc'[p] = "idle"
        /\ \E i \in 1..Len(Req(p).refs) :
              /\ Req(p).refs[i].segment.nil
              /\ Req(p).refs[i].process = "" \/ Req(p).refs[i].linkHash = NoHash
        => /\ calls'[cur[p]].status = "err"
           /\ calls'[cur[p]].result = "missing segment or (process and linkHash)"
           /\ UNCHANGED <<links, maps, evidences, values, heap, hist>>
           /\ \A c \in Chans : Delivered(c)' = Delivered(c)]_vars

\* After a CreateMap that created a map and sent its event, a CreateMap with
\* a reference holding a process alone was refused.
C29_Witness ==
    \E i, j \in 1..Len(calls) :
        /\ i < j
        /\ calls[i].req.op = "CreateMap" /\ calls[i].status = "ok"
        /\ calls[j].req.op = "CreateMap" /\ calls[j].status = "err"
        /\ calls[j].req.refs = <<RefProcessOnly>>
        /\ calls[j].result = ErrBadRef
        /\ Cardinality(DOMAIN links) = 1

\* The server answers the request of p in this step.
ServeHTTPAnswers(p) == pc[p] = "ServeHTTP" /\ pc'[p] = "idle"

BadOffset(r) ==
    r.method = "GET" /\ r.query.offset # <<>> /\ ~IsInteger(r.query.offset)
BadLimit(r) ==
    /\ r.method = "GET"
    /\ r.query.limit # <<>>
    /\ (~IsInteger(r.query.limit) \/ Atoi(r.query.limit) < 0)
BadBody(r) ==
    /\ r.method = "POST"
    /\ \/ r.body.type # "object"
       \/ r.body.linkHash.type # "string"
       \/ r.body.linkHash.v = NoHash

\* C30: the HTTP server refuses an invalid request before it reaches the
\* adapter. When it answers a GET whose offset is not an integer, the answer
\* is 400 "invalid offset"; whose limit is negative or not an integer, 400
\* "invalid limit" (one of the two when both are wrong); when it answers a
\* POST whose body is not JSON or not a valid segment, the answer is 400; and
\* in each case no mock of the adapter has recorded a call: the counts and
\* the recorded arguments are what they were.
C30_InvalidRequestRefused ==
    [][\A p \in {"p1"} :
          ServeHTTPAnswers(p) =>
              LET r == Req(p)
                  res == calls'[cur[p]].result
              IN  /\ BadOffset(r) /\ ~BadLimit(r) => res = ErrOffset
                  /\ BadLimit(r) /\ ~BadOffset(r) => res = ErrLimit
                  /\ BadOffset(r) /\ BadLimit(r) => res \in {ErrOffset, ErrLimit}
                  /\ BadBody(r) => res.Status = 400
                  /\ BadOffset(r) \/ BadLimit(r) \/ BadBody(r) => mock' = mock]_vars

\* Three requests were refused, one for its offset, one for its limit, one
\* for its body, and no mock has counted a call.
C30_Witness ==
    /\ Len(calls) = 3
    /\ \E i, j, k \in 1..Len(calls) :
        /\ BadOffset(calls[i].req) /\ calls[i].result = ErrOffset
        /\ BadLimit(calls[j].req) /\ calls[j].result = ErrLimit
        /\ BadBody(calls[k].req) /\ calls[k].status = "err"
        /\ calls[k].result.Status = 400
    /\ \A op \in MockOps : mock[op].CalledCount = 0 /\ mock[op].CalledWith = <<>>

\* The request is valid: nothing in it is for the server to refuse.
ValidRequest(r) ==
    /\ ~BadOffset(r) /\ ~BadLimit(r) /\ ~BadBody(r)
    /\ r.method = "GET" /\ r.query.offset # <<>> => Atoi(r.query.offset) >= 0

\* The mock of op has counted one call more, the others none.
CalledOnce(op) ==
    /\ mock'[op].CalledCount = mock[op].CalledCount + 1
    /\ \A o \in MockOps \ {op} : mock'[o] = mock[o]

\* C31: when the HTTP server answers a valid request, it has called the
\* adapter operation of the route exactly once, and the answer follows from
\* what the adapter returned: 500 and the internal-server-error message when
\* Fn returns an error; 200 and the value when Fn returns a value (for
\* SaveSegment, the segment of the request); and with no Fn, where the adapter
\* returns nil without error, 404 for GetSegment and 200 for the others.
C31_ValidRequestMapsOutcome ==
    [][\A p \in {"p1"} :
          ServeHTTPAnswers(p) /\ ValidRequest(Req(p)) =>
              LET r == Req(p)
                  op == Route(r)
                  res == calls'[cur[p]].result
              IN  /\ CalledOnce(op)
                  /\ mock[op].Fn = "error" => res = ErrInternalServer
                  /\ mock[op].Fn = "value" =>
                        /\ res.Status = 200
                        /\ res.Body = IF op = "SaveSegment"
                                      THEN mock'[op].LastCalledWith
                                      ELSE FnValue(r)
                  /\ mock[op].Fn = NilFn /\ op = "GetSegment" => res = ErrNotFound
                  /\ mock[op].Fn = NilFn /\ op # "GetSegment" => res.Status = 200]_vars

\* GetSegment was asked of a mock without Fn and answered 404, and the mock
\* counts that one call.
C31_Witness ==
    /\ mock["GetSegment"].Fn = NilFn
    /\ mock["GetSegment"].CalledCount = 1
    /\ mock["GetSegment"].LastCalledWith = SegmentPathHash
    /\ \E i \in 1..Len(calls) :
        /\ Route(calls[i].req) = "GetSegment"
        /\ calls[i].result = ErrNotFound

\* The task p holds no lock.
HoldsNoLock(p) == mutex.writer # p /\ p \notin mutex.readers

\* C32: with sinks that receive and do not call the store, and a scheduler
\* that runs every task that can run, every operation a task is in returns,
\* with a result or with an error; the task holds no lock once it has
\* returned; and the lock is free whenever no task is in an operation.
C32_OperationsReturnAndUnlock ==
    /\ \A p \in Procs : (pc[p] # "idle") ~> (pc[p] = "idle")
    /\ [](\A p \in Procs : pc[p] = "idle" => HoldsNoLock(p))
    /\ []((\A p \in Procs : pc[p] = "idle") =>
            mutex = [writer |-> None, readers |-> {}])

\* A CreateLink has returned its hash after both sinks took the event, a
\* call has returned an error, no task is in an operation and the lock is
\* free.
C32_Witness ==
    /\ \A p \in Procs : pc[p] = "idle"
    /\ mutex = [writer |-> None, readers |-> {}]
    /\ \E i, j \in 1..Len(calls) :
        /\ calls[i].req.op = "CreateLink" /\ calls[i].status = "ok"
        /\ calls[i].sinks = <<"c0", "c1">>
        /\ \A c \in {"c0", "c1"} : \E k \in 1..Len(recvd[c]) : recvd[c][k].cid = i
        /\ calls[j].status = "err"

\* The task q enters the critical section of its operation in this step.
Begins(q) == pc[q] \in {"Lock", "RLock"} /\ pc'[q] \notin {"Lock", "RLock"}

\* The write i has taken the lock and has not returned.
WriteInProgress(i) ==
    /\ calls[i].status = "pending"
    /\ cur[calls[i].proc] = i
    /\ pc[calls[i].proc] \in WriterCS

\* Every sink of the write i has taken its event.
TakenByAll(i) ==
    \A c \in Chans : CountOf(recvd[c], i) = Count(calls[i].sinks, c)

\* The event of the write i is in the channel of every sink of i or was
\* taken from it, and taken from it when the channel has no buffer.
SentToAll(i) ==
    \A c \in Chans :
        /\ CountOf(Delivered(c), i) = Count(calls[i].sinks, c)
        /\ ChanCap(c) = 0 => CountOf(recvd[c], i) = Count(calls[i].sinks, c)

\* C33 as stated: from the moment a CreateLink or AddEvidence takes the lock
\* until every sink has taken its event, no other operation, read or write,
\* enters its critical section.
C33_ExclusiveUntilTaken ==
    [][\A q \in Procs :
          Begins(q) =>
              \A i \in WriteCalls \ {cur[q]} :
                  /\ ~WriteInProgress(i)
                  /\ IndexOf(hist, i) # 0 => TakenByAll(i)]_vars

\* C33, amended: from the moment a CreateLink or AddEvidence takes the lock
\* until its event has been sent to every sink (taken by the sink of an
\* unbuffered channel, put into the buffer of a buffered one), no other
\* operation, read or write, enters its critical section; so a sink that
\* leaves its channel full keeps every reader and every writer out.
C33_ExclusiveUntilSent ==
    [][\A q \in Procs :
          Begins(q) =>
              \A i \in WriteCalls \ {cur[q]} :
                  /\ ~WriteInProgress(i)
                  /\ IndexOf(hist, i) # 0 => SentToAll(i)]_vars

\* A writer stands at the send to a sink whose buffer is full, inside its
\* critical section, and the other task waits for the read lock.
C33_Witness ==
    \E p, q \in Procs :
        /\ pc[p] = "send" /\ ~LoopDone(p)
        /\ ChanCap(local[p].snap[local[p].idx]) > 0
        /\ Len(chanBuf[local[p].snap[local[p].idx]]) = ChanCap(local[p].snap[local[p].idx])
        /\ mutex.writer = p
        /\ pc[q] = "RLock"

\* The evidences the AddEvidence calls that took effect added to hash h, in
\* the order in which they took effect.
AddedEvidences(h) ==
    LET adds == SelectSeq(hist, LAMBDA i : /\ calls[i].req.op = "AddEvidence"
                                          /\ calls[i].req.linkHash = h)
    IN  [k \in 1..Len(adds) |-> calls[adds[k]].req.evidence]

\* An evidence of the (backend, provider) pair of e was added to h.
PairAdded(h, e) ==
    \E k \in 1..Len(AddedEvidences(h)) :
        /\ AddedEvidences(h)[k].backend = e.backend
        /\ AddedEvidences(h)[k].provider = e.provider

\* C34: AddEvidence does not need the link. For a hash no CreateLink has
\* stored and an evidence of a new (backend, provider) pair, AddEvidence
\* records the evidence at the end of the list of the hash, stores no link,
\* and goes on to send the SavedEvidences event of that evidence; it returns
\* without error once the event was sent to every sink. From then on
\* GetEvidences returns the evidences added to the hash, GetSegment returns
\* nil as long as no CreateLink has stored the link, and once one has, the
\* segment of the link with all the evidences added, those added before the
\* link included.
C34_EvidenceBeforeLink ==
    [][\A p \in Procs :
          LET h == Req(p).linkHash
              res == calls'[cur[p]].result
          IN  /\ (pc[p] = "AddEvidence" /\ pc'[p] # "AddEvidence"
                     /\ NeverCreated(h) /\ ~PairAdded(h, Req(p).evidence)) =>
                    /\ pc'[p] = "send"
                    /\ evidences'[h] = Append(AddedEvidences(h), Req(p).evidence)
                    /\ ~Has(links', h)
                    /\ local'[p].ev = NewSavedEvidences(cur[p], h, Req(p).evidence)
              /\ (pc[p] = "send" /\ pc'[p] = "idle" /\ Req(p).op = "AddEvidence") =>
                    /\ calls'[cur[p]].status = "ok"
                    /\ \A c \in Chans :
                          CountOf(Delivered(c), cur[p]) = Count(eventChans, c)
              /\ (pc[p] = "GetEvidences" /\ pc'[p] = "idle"
                     /\ AddedEvidences(h) # <<>>) =>
                    res = [nil |-> FALSE, evidences |-> AddedEvidences(h)]
              /\ (pc[p] = "GetSegment" /\ pc'[p] = "idle" /\ NeverCreated(h)) =>
                    res = [nil |-> TRUE]
              /\ (pc[p] = "GetSegment" /\ pc'[p] = "idle" /\ ~NeverCreated(h)) =>
                    /\ ~res.nil
                    /\ HashString(res.link) = h
                    /\ res.meta = [linkHash |-> h, evidences |-> AddedEvidences(h)]]_vars

\* An AddEvidence for the hash of a link not yet stored returned without
\* error, the link was created after it, and a GetSegment then returned the
\* link with that evidence.
C34_Witness ==
    \E i, j, k \in 1..Len(calls) :
        /\ calls[i].req.op = "AddEvidence" /\ calls[i].status = "ok"
        /\ calls[j].req.op = "CreateLink" /\ calls[j].status = "ok"
        /\ 0 < IndexOf(hist, i) /\ IndexOf(hist, i) < IndexOf(hist, j)
        /\ CountOf(Delivered("c1"), i) = 1
        /\ calls[k].req.op = "GetSegment" /\ calls[k].status = "ok"
        /\ ~calls[k].result.nil
        /\ calls[k].result.link = L1
        /\ calls[k].result.meta.evidences = <<calls[i].req.evidence>>

\* The calls of the operation op of the mock that have started to run, in
\* the order in which they were made.
MockCallsMade(op) ==
    SelectSeq([i \in 1..Len(calls) |-> i],
              LAMBDA i : /\ calls[i].req.op = "MockCall"
                         /\ calls[i].req.mock = op
                         /\ ~(calls[i].status = "pending" /\ pc[calls[i].proc] = "MockCall"))

\* C35: the mock adapter records every call before it runs Fn. At every
\* moment, the call whose Fn is about to run included, CalledCount of each
\* operation is the number of calls made and the length of CalledWith,
\* CalledWith holds the arguments of the calls in order, LastCalledWith is
\* the last element of CalledWith (nil before the first call); a call whose
\* Fn returns an error is counted as well; and a call of a mock without Fn
\* returns nil results and a nil error.
C35_MockRecordsEveryCall ==
    /\ \A op \in MockOps :
        LET made == MockCallsMade(op) IN
            /\ mock[op].CalledCount = Len(made)
            /\ Len(mock[op].CalledWith) = mock[op].CalledCount
            /\ mock[op].CalledWith = [k \in 1..Len(made) |-> calls[made[k]].req.arg]
            /\ mock[op].LastCalledWith =
                  IF mock[op].CalledWith = <<>> THEN None
                  ELSE mock[op].CalledWith[Len(mock[op].CalledWith)]
    /\ \A i \in 1..Len(calls) :
        calls[i].req.op = "MockCall" /\ calls[i].status # "pending" =>
            /\ mock[calls[i].req.mock].Fn = NilFn =>
                  calls[i].status = "ok" /\ calls[i].result = [value |-> Nil, err |-> None]
            /\ calls[i].status = "err" => mock[calls[i].req.mock].Fn = "error"

\* An operation was called twice with different arguments and its Fn
\* returned an error each time, and a third call is recorded while its Fn
\* has not run yet.
C35_Witness ==
    \E op \in MockOps :
        /\ mock[op].CalledCount = 3
        /\ mock[op].CalledWith[1] # mock[op].CalledWith[2]
        /\ calls[1].status = "err" /\ calls[2].status = "err"
        /\ calls[3].status = "pending" /\ pc["p1"] = "MockFn"

\* The sources of ref when the archive of sha1 is completely extracted.
Extracted(ref, sha1) ==
    LET regs == {k \in 1..Len(Archive(sha1)) : Archive(sha1)[k].Typeflag = "reg"}
    IN  [path \in {SrcPath(ref, Archive(sha1)[k].Name) : k \in regs} |->
            Archive(sha1)[CHOOSE k \in regs :
                             SrcPath(ref, Archive(sha1)[k].Name) = path].content]

\* The sources of ref as they are on disk.
Sources(ref) == [path \in SrcFiles(files, ref) |-> files[path]]

\* C36: between the calls of Update, GetStateOrCreate, List and Generate,
\* those that failed included, whenever the state file of a ref exists it
\* holds a state, and the sources of the ref are the completely extracted
\* archive of the SHA1 of that state.
C36_StateFileMatchesSources ==
    (\A p \in Procs : pc[p] = "idle") =>
        \A ref \in Refs :
            Has(files, StatePath(ref)) =>
                /\ ~files[StatePath(ref)].empty
                /\ Sources(ref) = Extracted(ref, files[StatePath(ref)].SHA1)

\* When the remote answers not-modified, Update returns the stored state with
\* updated = false and no file changes.
NotModifiedChangesNothing ==
    [][\A p \in {"p1"} :
          (pc[p] = "GetCommitSHA1" /\ pc'[p] = "idle" /\ calls'[cur[p]].status = "ok") =>
              /\ files' = files
              /\ Req(p).op = "Update" =>
                    calls'[cur[p]].result =
                        [state |-> [nil |-> FALSE, file |-> files[StatePath(Req(p).ref)]],
                         updated |-> FALSE]]_vars

\* With no failing call the state file and the sources agree between calls.
ConsistentWithoutFailure ==
    (\A i \in 1..Len(calls) : calls[i].status # "err") => C36_StateFileMatchesSources

====
